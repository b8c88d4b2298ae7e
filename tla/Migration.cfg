CONSTANTS
    Starters = {poller, web, dropzone}
    Nobody = Nobody
    Plain = {import_combined, export_combined}
    Later = {explained_by}
    Minutes = {midnight}
    Granularity = {"live", "daily"}
    MaxDeaths = 1
SPECIFICATION MigrationSpec
PROPERTIES RowsSurvive EveryStartSucceeds
