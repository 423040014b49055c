\* One input at a time, compared with a reference definition.
CONSTANTS
    Geen = Geen
    Onzin = Onzin
    Vraagvormen <- MCVraagvormen
    Codes <- MCCodes
    Codelijsten <- MCCodelijsten
    Teksten <- MCTeksten
    Getallen <- MCGetallen
    Tabellen <- MCTabellen
    Centen <- MCCenten
    Datums <- MCDatums
    Leveranciers <- MCLeveranciers
    Contractrijen <- MCContractrijen
    Koprijen <- MCKoprijen
    Waarden <- MCWaarden
    Uploads <- MCUploads
    Bestandsnamen <- MCBestandsnamen
    Vandaag <- MCVandaag
SPECIFICATION InvoerSpec
\* A behaviour is one input.
CHECK_DEADLOCK FALSE
INVARIANTS
    VraagBeantwoordbaar
    InvoerPast
    BestandGoedGelezen
