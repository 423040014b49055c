\* Two concurrent uploads, a question for one file and one without uploads.
CONSTANTS
    Uploads = {u1, u2}
    Vragen <- MCVragen
    MaxFiles <- MCMaxFiles
    Geen = Geen
SPECIFICATION EerlijkeSpec
\* Once every upload ended and the response is submitted nothing happens.
CHECK_DEADLOCK FALSE
INVARIANTS
    TypeOK
    MaximumPerVraag
    GemeldIsBewaard
    GeenWeesbestand
PROPERTIES
    NaIndienenDicht
    UploadEindigt
