# Verification of MCM2

MCM2 is a multi-tenant application for managing suppliers and contracts. Its
heart is a survey: an organisation (a tenant) sends its suppliers a
questionnaire through a personal link, the supplier answers without an account
and submits once, and the submission is contractual evidence. Around it are the
registers of suppliers and contracts, an import of contracts, dossiers, reviews
of submissions, and login for employees. The server is a NestJS application on
PostgreSQL. Every request is one READ COMMITTED transaction
(`src/db/database.service.ts`, `withTenant`), several server processes may run,
and nothing is kept in memory between requests. So the hard behaviour is that of
concurrent transactions: a statement decides on the snapshot it started with,
waits for row locks, and acts; a commit publishes everything at once; a process
may die at any point; files and mail are outside the transaction. Besides that
there are rules about data that are written down more than once: in a form, in
the service behind it, and in a CHECK of the database.

Paths below are relative to the repository.

## 1. The modules

| module | what it is |
| --- | --- |
| `ResponsLeven` | what a response promises, as an abstract specification: invited, answered, submitted once with one audit line, withdrawn, re-invited |
| `Uitvraag` | a survey round: supplier requests and administrator requests on one round, statement by statement; implements `ResponsLeven` |
| `Bijlagen` | attachments to a response: file store, database row and clean-up |
| `ContractImport` | confirming import jobs: one long transaction per file, several at a time |
| `Toegang` | users, invitations, memberships, tenants and sessions: login, member management, platform management |
| `Afwezig` | the value of what is not there |
| `Transacties` | READ COMMITTED transactions as the next three modules use them: what a statement sees, row locks, picking and writing rows, COMMIT, ROLLBACK |
| `Leveranciers` | suppliers, contacts, contracts, replaced lists, categories and areas |
| `Beoordeling` | verdicts, notes and reviewers on responses, and the screens that show them |
| `Dossiers` | supplier dossiers, on top of `Beoordeling` |
| `Vragenlijsten` | questionnaires as data: import, export, rounds, the freeze trigger, changes by SQL |
| `Vragen` | which question may be in a document and which answer it takes, next to the CHECKs of the database |
| `Importbestand` | the CSV reader and the judging of import files |
| `Formulieren` | the readers of all forms and of uploads |
| `Invoer` | one input of any of the last three, compared with definitions that do not follow the code |
| `UitvraagProofs`, `BijlagenProofs`, `ContractImportProofs`, `ToegangProofs` | theorems about the module of that name |
| `TransactiesProofs` | lemmas on transactions, which the next three are built on |
| `LeveranciersProofs`, `DossiersProofs`, `VragenlijstenProofs` | theorems about the modules on `Transacties`; those about `Beoordeling` are in `DossiersProofs`, those about `Vragen`, `Formulieren` and `Invoer` are in `VragenlijstenProofs` |
| `MCUitvraag`, `MCBijlagen`, ... | instances for TLC; the `.cfg` files are the runs |

A definition whose comment starts with "Mutant of" is a plausible bug in the
definition it names. No specification uses it; it is there to show that a
property can fail.

### Conventions

* **A statement is a step.** Where the code reads and later writes, the model has
  two actions. What the transaction wrote but has not committed is in the
  request's own record (`geschreven`, `eigen`, or `schrijf` in `Transacties`), where
  other requests do not see it but may have to wait for it.
* **A lock is the fact that a request stands where it holds one** (`HoudtRij`,
  `HoudtSleutel`, `HoudtCode`), or, in `Transacties`, that it wrote the row; waiting
  is a conjunct of the guard.
* **An UPDATE of many rows** in `Transacties` is two steps: the snapshot picks the
  rows, and once nobody else holds them each is looked at again and written.
* **Crash and rollback** are actions of their own (`VerzoekBreektAf`,
  `BeheerRoltTerug`, `ProcesSterft`, `Faalt`, `Rollback`); they drop the record.
* **History variables** (`samen`, `onderweg`, `verstoord`, `wens`, ...) record what a
  property needs of the past, above all whether two requests overlapped. No guard
  reads them.
* Names are the source's: Dutch, as in the code.

### Uitvraag and the code

| in the model | in the code |
| --- | --- |
| `runStatus`, `closesAt` | `clm.survey_run`, `src/db/schema.ts:817` |
| `respons[v]` | the row of vendor v in `clm.survey_response`, `src/db/schema.ts:871`; `"geen"` is no row |
| `antwoord[v][q]` | the row of `clm.survey_answer`; its content is abstracted to the request that wrote it last |
| `audit[v]` | the number of audit lines of a submission |
| `verzoek[r]` | a request on `POST /survey/respond` or its concept route, with its program counter |
| `beheer[b]` | an administrator request between its SELECT and its write |
| `Controleer` | `SurveyTokenGuard` with `clm.resolve_survey_token`; it hands the handler a response, not a token |
| `BeginTransactie`, `LeesVoorSchrijven`, `Schrijf` | validation, then the answers in the order of the questions; each is an upsert whose row level policy looks at the snapshot |
| `ConceptCommit`, `LeesVoorAfsluiten`, `Afsluiten`, `NietMeerOpen` | the ends of saving and submitting; the closing UPDATE is evaluated again after its wait |
| `LeesWijzigStatus`, `LeesArchiveer`, `SchrijfStatus` | `wijzigStatus`, `archiveer` |
| `LeesIntrekken` / `SchrijfIntrekken`, `LeesHeruitnodigen` / `SchrijfHeruitnodigen`, `LeesUitnodigen` / `SchrijfUitnodigen` | `trekDeelnemerIn`, `heruitnodigen`, `uitnodigen` |
| `RegistreerHandmatig`, `MaakRonde`, `VerwijderVendor`, `Tik` | single statements, and the clock |

`LeesWijzigStatus` has no guard of its own because `Next` offers only the arrows
that leave the status just read. A request whose SELECT refuses changes nothing
and has no action.

### Bijlagen and the code

An upload `u` stands for its file (a storage key is a fresh UUID) and for its row.
`Bewaar` is the write to disk or S3 before the transaction; `Vergrendel`, `Tel`,
`VoegIn`, `Commit` are the statements of `BijlageService.voegToe` and
`BijlageBeheerService.voegToeAlsBeheer`, the first of which is the
`SELECT ... FOR UPDATE` on the response. `VerbindingValt` is a connection that
breaks during COMMIT: the caller has an error, the server decides later
(`ServerBeslist`). `KijktOfRijBestaat` and `Wis` are `ruimOpIndienNodig`, which
runs for every outcome and on another connection. `StatusWijzigt` is everything
that `Uitvraag` does to the status of the response.

### ContractImport and the code

`verzoek[r]` walks through the rows of its job, one statement at a time:
`VindVendor`, `VindCategorie`, `MaakCategorie`, `VindContact`, `MaakContact`,
`MaakContract`, `VindGebied`, `MaakGebied`, `BoekRij`. What it writes is in
`verzoek[r].eigen` until `Bevestig`. A SELECT sees the committed rows and those
of its own transaction (`Ziet`). An INSERT of a code another open transaction
inserted waits; when the other commits the unique key makes this one fail
(`Botst`), and a circle of waiting transactions is broken by PostgreSQL
(`DeadlockAfgebroken`). A vendor or contract is identified by the request and the
row that made it.

### Toegang and the code

| in the model | in the code |
| --- | --- |
| `gebruiker`, `lid`, `tenant`, `sessie` | `clm.user`, `clm.tenant_membership`, `clm.tenant`, `clm.sessie` |
| `voor` | history: the row each invitation token was issued for |
| `verzoek[v].dicht`, `.gezien` | history: the tenants closed when the request began; the administrators it counted |
| `Inloggen`, `Callback`, `ZoekLid`, `ControleerTenant`, `SchrijfSessie` | the OIDC callback: `SessieService.aanmaken` with `clm.sessie_aanmaken`; the identity is what the provider's verified token says |
| `LeesKoppeling`, `SchrijfKoppeling` | `clm.koppel_eerste_login`, a SELECT and an UPDATE by `user_id` |
| `Oplossen` | `TenantContextGuard` with `clm.sessie_oplossen`, which prolongs |
| `LeesUitnodigen` / `SchrijfUitnodigen`, `LeesLid` / `SchrijfRol`, `SchrijfIntrekken`, `LeesGegevens` / `SchrijfGegevens` | `TenantLedenService` |
| `TenantAanmaken`, `SupportToegang`, `Wissel`, `EigenTenant`, `Deactiveer` | `PlatformController`, `PlatformService` |

### Leveranciers, Beoordeling, Dossiers, Vragenlijsten and the code

All four keep their rows in `rij`, by key, and their requests in `verzoek`
(`Transacties`). A request starts with the action named after the method and goes on
with one action per statement:

| start | statements |
| --- | --- |
| `MaakAan`, `Wijzig` | `ZoekKvk`; `SchrijfNieuwe` or `SchrijfWijziging`; `KvkGeweigerd` and `CodeOnbekend` are the unique index and the foreign key |
| `Verwijder` | `SchrijfVerwijderd`, `KiesContacten`, `SchrijfContactenWeg` |
| `VoegContactToe`, `WijzigContact` | `KiesAnderen`, `SchrijfAnderen` (the other primary contacts), `SchrijfContact` |
| `VerwijderContact` | `SchrijfContactWeg`, `KiesOpvolger`, `SchrijfOpvolger` |
| `MaakContract`, `WijzigContract`, `VerwijderContract` | `SchrijfContract`, `SchrijfContractWeg` |
| `Vervang` | `KiesLijst`, `SchrijfLijstWeg`, `SchrijfLijstNieuw`: compliance themes, a contract's questionnaires, its areas |
| `MaakCode`, `VerwijderCode` | `SchrijfCode`, `SchrijfCodeWeg`, the latter with ON DELETE CASCADE (areas) and SET NULL (categories) |
| `VoegOordeelToe`, `VoegNotitieToe`, `TrekIn`, `Koppel` | `InvoegenRij`, `IntrekkenRij`, `KoppelenRij` |
| `OpenScherm` | `LeesOverzicht` or `LeesRonde`, twice: `volledigOverzicht` reads in two transactions, `ronde` in two statements |
| `Aanmaken`, `NotitieToevoegen`, `LinkToevoegen`, `DossierWijzigen`, `RijIntrekken` | `SchrijfDossierNieuw`, `SchrijfDossierrij`, `SchrijfLink`, `SchrijfDossier`, `SchrijfRijWeg` |
| `BijlageToevoegen` | `Vergrendel` (FOR UPDATE on the dossier), `TelBijlagen`, `Bewaar` (the file), `SchrijfBijlage` |
| `Importeer` (service and seed script) | `ZoekTemplate` (seed only), `MaakTemplate`, `MaakCategorieen`, `MaakVragen` |
| `Exporteer`, `Detail` | `LeesCategorieen`, `LeesVragen`: three SELECTs, three snapshots |
| `MaakRonde`, `WijzigStatus`, `Archiveer` | `TelVragen`, `SchrijfRonde`, `SchrijfStatus` |
| `Wijziging` | `VraagWeg`, `VraagErbij`, `VraagVerplaatst`, `VraagGeweigerd`: a change by SQL under the trigger `assert_template_niet_bevroren`; no service changes a question |

`Beoordeling` has the operations of `Uitvraag` once more, one step each
(`UitvraagStap`): `Uitvraag` shows what they do to a response, here they are the
surroundings of the reviewers.

### Vragen, Importbestand, Formulieren and the code

These are operators. `Vragen` translates `valideerVragenlijst` (`DocumentGoed`,
`VraagGoed`), `toetsAntwoord` (`ToetsAntwoord`, with the row it makes,
`GeldigAntwoord`) and the three CHECKs of `survey_answer`. `Importbestand` translates
`leesCsv`, `leesBedrag`, `leesContractDatum`, the findings per row and the numbering of
contact columns. `Formulieren` has one operator per reader of a value
(`VerplichteTekst`, `KvkNummer`, `OptioneleDatum`, ...), a table `FORMULIEREN` that says
which reader each field of each of the thirty forms uses and where the value goes, and
`LeesFormulier`, which applies it; then the recognition of uploaded files and the
cleaning of their names. A text is its lengths and what it spells, never its
characters, except in CSV files, where the characters are the point.

## 2. Inventory

What each part keeps, does and must keep true. The list with its status is in
`PROJECT.json`.

**Survey round** (`survey/ronde-beheer.service.ts`, `ronde-invoer.ts`). State:
status and closing date of a round, a row per invited vendor. Operations: create,
start, finish, reopen, archive, invite, withdraw, re-invite, note a manual
mailing. Hard: every operation is SELECT then write without a lock, so
administrators overtake each other and suppliers. Correct when a link in force is
only replaced after a withdrawal and notes are about the link in force. *Uitvraag.*

**Supplier access** (`survey-token.service.ts`, the guard, `drizzle/0008`). Stateless
check of a link before the handler. Hard: what it saw may be over when the handler
starts. Correct when nothing of a supplier gets in before the round is started or
after its link expires. *Uitvraag.*

**Saving and submitting** (`antwoord-*.service.ts`). State: answers, status,
`submitted_at`, audit. Hard: double submission, a save that overtakes a submission,
failure half way, lock order; counting as the database counts. Correct when a
submission is complete, final, within its term, has one audit line, and an accepted
answer is one the database takes. *Uitvraag, Vragen.*

**Attachments** (`bijlage*.service.ts`, `bestand-opslag.service.ts`). Two stores
without a common transaction. Correct when the maximum per question holds, what was
reported as stored stays, and nothing is left behind. *Bijlagen; file types and names
in Formulieren.*

**Contract import** (`contract-import/`). State: jobs with judged rows; contracts,
vendors, contacts, codes. Hard: concurrent confirmations, find-or-create, deadlock;
files written by hand. Correct when a job is imported wholly or not at all, every row
leads to its contract, and a file is read as it was written. *ContractImport,
Importbestand.*

**Questionnaires** (`vragenlijst-import.service.ts`, `vragenlijst-schema.ts`, freeze
trigger in `drizzle/0005`). State: templates with categories and questions. Hard: the
trigger reads a snapshot while a round starts; three SELECTs per export. Correct when
a started round keeps its questions, a template is one whole document, an export reads
back, and every question can be answered. *Vragenlijsten, Vragen.*

**Review** (`beoordeling`, `beoordelaar`, `notitie`, `respons-status.ts`,
`contractmanager`). State: verdicts, appended and withdrawn, reviewers per
questionnaire. Hard: the last verdict counts, by the start time of its transaction;
screens read in several snapshots. Correct when every screen computes the same status
and only submitted responses are judged. *Beoordeling.*

**Login, members, platform** (`auth/`, `tenant/`, `platform/`, `drizzle/0010`, `0024`,
`0033`). State: users, memberships that may expire or be revoked, invitation tokens,
sliding sessions. Hard: a session copies its role; the last administrator is counted
without a lock; two first logins share one token. Correct when an invitation couples
only the row it was issued for, no session comes to be in a closed tenant, and a tenant
keeps an administrator. *Toegang.*

**Suppliers, contacts, contracts, codes** (`vendor/vendor.service.ts`,
`contract.service.ts`, `vendor-category/`, `werkingsgebied/`). Hard: one primary contact
without a unique index; sets replaced by DELETE and INSERT; soft deletion next to
foreign keys. *Leveranciers.* **Dossiers** (`vendor-engagement.service.ts`): open,
closed, withdrawn, notes, at most ten attachments; the file is stored inside the
transaction. *Dossiers.*

**Forms** (`*-invoer.ts`): seven files, each with readers of its own for the same kinds
of value. Correct when what is accepted fits its column and two forms for one column
agree. *Formulieren.*

**Mail** (`mail/`): after the COMMIT, once, no retry; a lost mail is reported in the
answer. **Features**: one statement. **Tenant isolation**: row level security, declared
in the database and tested by the repository. **Scripts, deployment, start-up**: outside
the running system.

Interactions: the guard decides for saving, submitting and uploading; the response
row is the lock they share; starting a round freezes its questionnaire; import writes
the registers of vendors, contacts, categories and areas; a removed vendor loses its
link; review reads what submission wrote; login decides who may administer.

## 3. The runs

TLC is run on each `.cfg` with the module named in `PROJECT.json`.

| run | instance | shows |
| --- | --- | --- |
| `leverancierspad` | 1 vendor, 2 supplier requests, 1 administrator, 2 links, 2 questions (1 required), clock 0..1 | a submission is complete, final, in time, with one audit line; nothing before the start; no lock cycle; refinement of `ResponsLeven` |
| `beheerpad` | 2 vendors, 1 supplier request, 2 administrators, 3 links | links are replaced only after a withdrawal, the note on mailing is about the link in force |
| `voortgang` | 1 vendor, 2 supplier requests, 1 administrator, 1 link, clock stopped | every admitted request ends |
| `bijlagen` | 2 uploads, a question for 1 file and one for none | maximum, storage, clean-up, no row after submission, every upload ends |
| `contract_import` | 2 jobs, 3 confirmations, 3 numbers; the jobs meet one category and one area in opposite order | all or nothing, one vendor per number within an import, rows lead to contracts, every confirmation ends |
| `toegang` | 3 requests; a platform administrator with a tenant, an administrator and an invited administrator in another, a free user row, a free tenant; clock 0..1 | an invitation couples its own row; no session in a closed tenant; the last administrator goes only by an overlap or by support access; an ended session stays so |
| `leveranciers` | 3 requests, 2 at a time; a supplier with two contacts, a contract, a list of two areas, a category, room for another supplier, contact and contract | one primary contact, no orphans, whole lists, codes that are there |
| `medewerkers` | 3 requests, 2 at a time; 1 response with 2 verdicts, 1 dossier with room for 1 attachment | the last verdict counts, screens add up, a dossier holds what it should |
| `vragenlijsten` | 3 requests, 2 at a time; 2 templates, one with a draft round, 2 new ones, 4 documents, one of which is refused | a started round keeps its questions but for two holes; whole templates, exports that read back |
| `invoer` | 195 000 inputs: questions, answers, tables, amounts, dates, rows, headers, forms, uploads, names | questions that can be answered; accepted input fits; files are read as written |

**Why these bounds.** The hazards are between two transactions on one row, so two
supplier requests, two administrators, or two open transactions are what each needs;
a third request, after one of them, lets a state they leave be used. The third
confirmation of `contract_import` lets two of the same job meet one of another. Two
questions are the least with which locks can be taken in two orders, one of them
optional so that saving and submitting write different sets. Two links allow one
re-invitation after a withdrawal; three allow it for one of two vendors. One tick of
the clock lets a link, an invitation or a session expire (`Geldigheid`, `Venster`,
`UitnodigingGeldig` are 1). One file per question or dossier is the least at which two
uploads are one too many; a question for none exercises the refusal. The documents of
`vragenlijsten` have two categories whose names give one key, and a third that is named
as the second is numbered. The values of `invoer` lie on both sides of every limit the
code has: lengths, sizes, numbers, dates past the end of a month, texts whose UTF-16
length differs from their characters; fields that are judged together are filled in
together. `CHECK_DEADLOCK FALSE` is set because the system may rest: when all requests
have ended nothing need happen. `MaxTijd` bounds the clock, `MaxOpen` the transactions
open at a time (in the code the pool), and the sets of requests and links bound the
length of a behaviour; nothing else is capped. Symmetry is used in safety runs only,
over values that are compared for equality.

**Fairness.** Only in `EerlijkeSpec`, and only of the server's own steps on a request
it has let in: `WF` of `VerzoekStap(r)`, `UploadStap(u)`, `ImportStap(r)`. Node and
PostgreSQL continue a transaction once its locks are free, and PostgreSQL breaks
deadlocks, which is why no strong fairness is needed. Nothing is assumed of clients,
administrators, the clock, crashes or failures: `database.service.ts` sets no
`lock_timeout` and no `statement_timeout`, so a failing transaction, a broken
connection or a dying process (`UploadStoring`, `VerzoekBreektAf`, `Faalt`) may happen
and is never counted on. An upload that waits for the row lock of another therefore ends
because the holder does: the holder is not waiting itself and its own steps are fair, or
it died and PostgreSQL takes its lock away; a COMMIT whose answer was lost is decided by
PostgreSQL, which also happens in the end. In `ContractImport` only two refusals of
PostgreSQL that the code meets on its way are steps of the import itself: a unique
violation and being the victim of a deadlock. The modules on `Transacties` state no liveness:
their requests lock rows in no particular order, so that a deadlock, ended by
PostgreSQL with an error, is one of the rollbacks.

### What holds only without an overlap

Several properties carry an exception, and the exception is the finding. TLC finds each
violated when its exception is left out.

| property | exception |
| --- | --- |
| `EenAanspreekpunt` | two requests that change the contacts of a supplier at the same time (`vendor.service.ts:664` says "hoogstens één"); and a contact told not to be primary leaves the supplier without one |
| `WeesAlleenBijOverlap` | a contact added while its supplier is deleted |
| `LijstIsWens` | two replacements of a list at the same time leave the union |
| `LaatsteAdminAlleenBijOverlap` | two administrators remove each other; or a platform administrator takes support access in a tenant it is the administrator of, which overwrites that membership (`platform.service.ts:267`) |
| `LaatsteOordeelTelt` | two requests on one response: `created_at` is the start of the transaction |
| `SchermenKloppen` | a response that changes while the overview is read |
| `DossierKlopt` | a note added while its dossier is withdrawn |
| `LopendeRondeVast` | a change of a question open when the round starts; a question moved to another template (the trigger looks at `NEW.template_id` only); a round that started without questions because they went after `maakRonde` counted them |
| `HeleVragenlijst` | an export or screen of a template that changes while it is read |
| `VraagBeantwoordbaar` | a `file_upload` question without uploads, a minimum of options that there are not, a range without a number of its decimals, nor one within a millionth of zero: accepted, and unanswerable when required |
| `InvoerPast` | see below |

`InvoerPast` lets through, and the database then refuses with a status 500: a comment of
ten UTF-16 units that is fewer than ten characters; days past the end of their month
(forms check the shape of a date only); amounts of more than thirteen digits and whole
numbers beyond `integer`; an address with an empty part in its domain or longer than 254
in `platform-invoer.ts`, where `drizzle/0025_tenant_antwoordadres.sql:59` says that
database and application allow the same; one id twice, once in capitals; a status that
is a property of every JavaScript object (`'toString' in OVERGANGEN`), which ends in
a 409. And it lets through what is stored otherwise than meant: a number nearer to
zero than a millionth has no decimals to count (`String` writes `1e-7`, `-1e-7`), and the address of a member keeps its blanks.
`BestandGoedGelezen` leaves out amounts with one decimal (`4,5` is read as 45). Of the
contact columns it says exactly which are kept: those of which no later column of the same
field gets the same number (headers without a number are counted, headers with one bring
their own: of `email, email_2, email` the first, which took 2, is lost). `TabelGelezen` writes the table in every
way with quotes, separators, line ends, white space around a header and a byte order mark in
front, and expects the rows that have a visible character back.

`LijstIsWens` is about rows by their key: the second half of a DELETE (`SchrijfLijstWeg`) looks
at the keys its first half found, where PostgreSQL would skip a row that another transaction
deleted and inserted again. That takes two replacements of the list at once, which the
property leaves out.

### What the code does not keep

Two runs check one statement of the repository each and TLC finds it violated; the
quotations are under `findings`.

| run | statement | how it fails |
| --- | --- | --- |
| `ingediende_antwoorden_blijven` | after submission the answers do not change | a save passed the policy's snapshot, the submission commits, then the save commits |
| `categorie_verwijderbaar` | deleting a category takes it off its suppliers | the foreign key sets `tenant_id` to NULL as well, which the column refuses; a deleted supplier is enough |

`IngediendIsDefinitief` (the response row) holds although
`IngediendeAntwoordenBlijven` (its answers) does not: the first is guarded by the
conditional UPDATE and the CHECK constraint, the second only by a policy that reads a
snapshot.

The models show these too, without a run of their own:

* "archived is een eindpunt" (`ronde-invoer.ts:316`): a reopening that read `finished`
  writes after the archiving (`ronde-beheer.service.ts:303` repeats no condition).
* no link in a closed round (`ronde-beheer.service.ts:722`): `heruitnodigen` does not
  look at the round.
* the closing date wins (`schema.ts:842`): only the guard compares with it.
* a withdrawn link is refused: a request that was let in before the withdrawal and the
  re-invitation submits the response.
* no row without a file (`bijlage.service.ts:60`): a COMMIT in doubt when the clean-up
  looks.
* a job is confirmed once (`contract-import.service.ts:185`): two confirmations read
  `preview`, and every contract stands there twice.
* an invitation token works once (`drizzle/0024_uitnodigingstoken.sql:155`): the second of
  two overlapping first logins overwrites the identity of the first.
* an expired membership gives no access: a session made before it expired goes on.
* the KvK number of a deleted supplier is in the unique index but not in the check before
  it: a status 500 instead of the message (`vendor.service.ts:414`).

## 4. The proofs

The theorems hold for every value of the constants that satisfies the named
assumptions of the modules, for any number of requests and of rows. There are five
kinds of assumptions:

* numbers: `VragenAanname`, `TijdAanname`, `MaxFilesGetal`, `ToegangTijd`,
  `TransactiesMaxOpen`, `DossiersMaximum` (natural, and not zero where zero would mean no
  system at all), and uploads are finitely many (`UploadsEindig`);
* types that `valideerVragenlijst` looks at and `DocumentGoed` does not: in a document
  that passes, positions are whole numbers, a question has its fields and `maakSleutel`
  makes a key of every name (`VragenlijstenDocumenten`); the same of the category and the
  question a change by SQL adds (`VragenlijstenExtra`); a key is not an absent value
  (`VragenlijstenSlug`);
* what comes in: texts, lists, values of a form, names of files and rows of a file are what
  JSON, a browser or a spreadsheet can hold (`InvoerVormen`);
* names: `Geen` (SQL NULL) differs from the values it stands beside (`GeenAanname`,
  `GeenApart`, `ToegangGeen`, `VragenlijstenGeen`, `VragenlijstenWaarden`), the keys of two tables are never the
  same (`LeveranciersSleutels`, `DossiersSleutels`), jobs are sequences of rows
  (`RijenPerJob`);
* the database at the start: `ToegangBegin`, `LeveranciersBegin` and `VragenlijstenBegin`
  say that it satisfies the constraints of its tables and holds what the application
  writes: references lead to rows, a supplier has at most one primary contact, a
  questionnaire is an imported document, rounds are drafts. An empty database satisfies
  them, and so does one in use as long as nothing that an exception below is about has
  happened in it and no round is running: such states are reached, never started from.

**Uitvraag.** `TypeOK` is inductive by itself. The inductive invariant `IInv` adds

* `RijInv(v)`: the CHECK constraint of the row (`submitted` exactly when
  `submitted_at` is set), and what must be true of it with the audit line, the term
  and the required answers. The constraint is why withdrawing without a condition is
  harmless: it refuses the row such an UPDATE would make of a submission;
* `VerzoekInv(r)`: a request past the guard works on a row that exists, passed its
  validation, and has written its answers from the first question up; at its closing
  UPDATE it has written all of them;
* `BeheerInv(b)`: a pending status change never leads back to draft, and a pending
  withdrawal is about a row that exists;
* `NietsVoorDeStart`, inductive together with the rest: no step makes a round draft
  again.

`GeenDeadlock` needs an argument of its own: in a group of requests that wait for
each other, whoever holds the question another waits for has written it and itself
waits for a later one, because answers are written in the order of the questions. The
questions waited for would climb without end in `1..AantalVragen`. It holds for
groups of any size. `Verfijning` maps rows to the phases of `ResponsLeven` and shows,
action by action, that each step is one of its steps or a stutter.

**Bijlagen.** `BInv` says that at most one upload holds the response row
(`AlleenEen`), that its permission (`MagNog`) and its count (`RuimteBlijft`) stay
right until its row appears, in-doubt COMMITs included, and how outcome, row and file
go together (`Levensloop`). The maximum follows by counting one row more.

**ContractImport.** `Verloop(r)` says that at each statement the open transaction holds
exactly the contracts and results of the rows it has passed, and vendors with the
numbers it did not see; the conjuncts on committed rows say they were written by
confirmed requests, all rows of the job together. Commit carries one to the other.

**Toegang.** `IInv` is `TypeOK`, what each request knows (`Verloop(v)`: who it logs in,
what the session it opens may be, which administrators it counted), and three facts on
rows: sessions and memberships belong to users that exist, an invitation in force was
issued for the row it is in. Requests lock nothing, and the argument is that rows move
one way (`Vooruit`): an invitation stays with its row, a user stays, a deactivated tenant
stays so, a session is opened once by the request it is named after. So what one
statement found still says something when a later one writes. The four properties of
steps follow from `IInv`: a coupling, a session in a closed tenant, a session that comes
back, the loss of the last administrator each come down to what the one request that
writes had read.

**Transacties.** Lemmas only: what each statement leaves in its request, that the other
requests keep theirs (`Anders`), that a row is written by one open transaction at a time
(`Slot`), what COMMIT and ROLLBACK do to the rows. The three modules built on it have a
proof of the same form: `Lokaal(q)` says what the open request `q` was asked, has picked
and has written at each of its statements. That `q`'s own step keeps it is one part of
the proof; that the COMMIT of another request keeps it is the other, and it is where the
hazards are.

**Leveranciers.** What a request has read of the contacts of its supplier (`Aanspreek`,
`Verdwijnt`) is only right as long as no other request changes those contacts: that is
the exception of `EenAanspreekpunt` and `WeesAlleenBijOverlap`, and `Alleen` says that two
such requests are noted when they are open together. What a list comes to (`Lijst`) is
right for any overlap as far as it must hold what was asked for, and only without one as
far as it holds nothing else. The foreign keys hold whatever overlaps (`CodeSlot`):
nothing that is written refers to a code that is being deleted, because the reference and
the deletion lock the row of the code. New rows have keys of their own (`EigenSleutels`).

**Dossiers and Beoordeling.** `IInv` has two halves; the second needs of the
first only that no response ceases to be back. The screens (`Schermen`) read responses in two statements: a picture counts no response that
it does not list, and what it lists without a change in between is as it is now. The rows
(`Kern`): the input of a request, its new keys, what it has written, and what it may still
rely on when others have committed (`Weet`); for attachments that is the count under FOR
UPDATE, as in `BijlagenProofs`: one holder of the dossier row, so that the number counted
stays right until the row is there. `LaatsteOordeelTelt` needs that `volgorde`, the order
of the commits, holds every verdict, those of a response without an overlap in the order
of their times. `DossierKlopt` is a property of steps: a COMMIT is
taken apart by what it wrote.

**Vragenlijsten.** `IInv` says for each open request what it may still write
(`ImportGoed`, `MaakGoed`, `StatusGoed`, `HaalGoed`, `WijzigGoed`), that keys under way are
its own (`Alleen`) and that a name it has inserted is nobody else's (`NaamVrij`, the unique
index). What all others may do meanwhile is one relation, `Groeit`: rows of other imports
and rounds appear, statuses move, questions change in templates that are then noted. Row
locks play no part in it. The freeze comes down to `WijzigGoed`: a change by SQL that
passed the trigger is of a template without a started round, or its round is noted as one
that started during the change, which is the first exception of `LopendeRondeVast`
(section 3 has the others). `UitvoerEenMoment`
rests on a second invariant, `UInv`: what a reader has read so far is what is there now
unless the template was disturbed.

That exports read back (`VragenlijstHeel`, the whole of `HeleVragenlijst`) takes a third
invariant, `HInv`, and facts about data. `HInv`: the rows of every template that is there
are `Heel` (names, keys and positions apart, every question in a category of the same
template or in none, defaults filled in), what an open change by SQL is going to commit
keeps them so, and what was handed out is `Heel` and, of a template nobody changed, what
one good document makes. A change is not undone by another that commits first, because
categories are only ever added and a change rewrites all rows of a kind. The facts about
data: rows with positions of their own are put in order without loss (`OpPositieFeit`: the
rank of a row among the positions is injective into `0..n-1`, hence onto);
`ExportSleutels` gives every category a key of its own (`ExportSleutelsFeit`: the loop
finds a free number because there are more numbers than keys taken); from these
`LeestTerug`, for all rows that are `Heel`, and `ExportGoed`, for all documents that pass.
`ExportSleutels` is a recursive function: that it is defined at all and what it returns are
shown by a smallest counterexample (`EersteGetal`), for the induction theorems of the
library cannot be used.

`AntwoordInTabel` is about the operators of `Vragen` and not about runs: for every question
that passes `VraagGoed` and every answer, what `toetsAntwoord` accepts makes a row that the
three CHECKs of `drizzle/0005` accept, with the two exceptions of `Invoer.AntwoordPast` (a remark
counted in UTF-16 units, a number nearer to zero than a millionth). The run `invoer`
compares them on a grid of values, the theorem for all.

**Invoer.** `InvoerHeel` proves `InvoerPast` for any input sets that satisfy `InvoerVormen`:
they hold what a document, a browser or a file can hold, and an example of every required
field. The theorem has one hypothesis more, `Apart`: an absent value and the mark of a
refusal are not records with a `soort`. It is no ASSUME because TLC cannot take the domain
of a model value. The invariant is `GevalGoed`; the
work is in what it implies, a statement about every form and every body a browser can send
(`Formulieren!Waarde`: a text of any length with any number of blanks around it, a list of any
values, any other value; what the text says is one of the few contents the readers tell apart):

* one value: `Herlezen`, what a reader makes of a value it reads the same when it is sent
  again, and the text has no blanks around it, those of a member's address excepted;
  `VerzamelHerlezen`, the same of the readers of lists, which drop the second of two equal
  ids or codes (`Uniek` of a list is injective and `Uniek` of that is the same list);
  `MaatGehouden`, what comes out is as long and as large as the field allows;
* one field: `VeldNeemt`, the value fits its column or is one of `Doorgelaten` (which names
  the values themselves: of a date of a next step only a day past the end of its month,
  of a list of questionnaires only one id in two spellings), from
  `MaatGehouden` and the word lists (`WoordenGoed`); `NooitLeeg` and `VeldLeeg`, a column that
  takes no NULL gets none, but for the name of a contact that is left out;
* the table of forms: `FormulierenGoed`, every field of every form has a reader, a column
  and a maximum that go together (`GoedVeld`), and `VeldenEens`, two forms that write the
  same column read it by the same rule;
* one form: `FormulierHeel`, from these and `Samenhang` (dates in order);
* answers: `AntwoordInTabel`, and that a question of a document counts its attachments
  (`BijlagenTellen`);
* uploads: `BestandPast`, and `NaamPast`: a name of any characters loses its path, its control
  characters and its outer blanks, and is never empty.

`VraagTeBeantwoorden` is the content of `Invoer.VraagBeantwoordbaar` for every question: it
has an answer that `toetsAntwoord` accepts exactly when it is not one of `Onmogelijk`. For
each type an answer is built (as many codes as the minimum asks, a text of the minimum
length, a number rounded to the units of its decimals: `Afgerond`, `DecimalenFeit`,
`GetalBestaat`); the other way a choice of options is injective (`NietMeerCodes`), and a
number in range is at most the largest whole number of units in range. The proof is how
one exception was found that no input of the run had shown: with bounds within a millionth
of zero, `1e-7` is accepted as a number without decimals, and so is `-1e-7`. With
few answers to choose from a question may lack the one that fits, so that
`VragenBeantwoordbaar` makes it an invariant of `Invoer` under one hypothesis, `Alles`: every
code, list of codes, number and text can be given.

`LeverancierEenmaalGelezen` proves one part of `BestandGoedGelezen`, `LeveranciersGelezen`, for
files of any length: a row with a name is imported exactly when no earlier row with a name is
about the same supplier (`EersteRijen`, from `EersteGetal`: among such rows there is a first),
there are as many of them as there are suppliers named (`LeverancierEenmaal`), and the counts
of the summary are of two sets that make up the file (`TellingFeit`).

**Model-checked only.**

* The liveness properties (`VerzoekEindigt`, `UploadEindigt`, `ImportEindigt`): fairness and
  ENABLED are beyond the prover.
* Of the inputs of the run `invoer`: the rest of `BestandGoedGelezen`. The CSV reader, the
  amounts and the columns of contacts are folds over characters or columns, and what a fold
  computes for every input takes an induction; `DateUTC` is a recursive function whose
  equation, at the edge of its domain, refers beyond it.
* The two violated statements are shown by TLC's counterexamples.

## 5. Not modelled

Tenants (except in `Toegang` the models describe one), row level security between them,
the wording of messages, layout, the HTTP layer, cryptography and the exchange with the
identity provider, mail providers, storage back ends, logging, scripts other than the
seeding of questionnaires. Of the reading screens, lists that are one SELECT; the counts
per question (`ronde-resultaten.ts`), which also leave out withdrawn participants that the
page of the round counts. `PATCH` of one of two dates of a contract is not compared with
the other date in the database, in the code and so in the model. Importing suppliers and
`VragenlijstImportService` are judged and written as the code says, though no controller
calls the latter.

## 6. Plan

1. `Uitvraag` composed with `Beoordeling` through the response row instead of the one-step
   operations there.
2. That `LaatsteAdminAlleenBijOverlap` gives an invariant: with one administrator request
   at a time and no support access, every tenant with an administrator keeps one.
3. The sender of invitations as a step that can fail, when the code gets a retry.
