# Verification of the library application

The repository holds a library's web application: a Symfony back end
(`poc_articles`: a REST API under `/api` and an EasyAdmin back office) over
MariaDB, and an Angular front end (`front_articles`). This directory models what
they do when requests, answers and people overlap: loans and reservations, the
dates of loans, accounts, the catalogue and its search, the pages that show
them, and the login that the two applications share.

## The system

| Part | Code | State | Modelled by |
|---|---|---|---|
| Loans | `EmpruntCrudController`, `EmpruntRulesValidator`, `Entity/Emprunt` | table `emprunt` | `Circulation`; dates in `Retards` |
| Reservations | `Api/ReservationsController`, `ReservationsCrudController`, `ReservationRulesValidator` | table `reservations` | `Circulation` |
| Accounts | `Api/UserController`, `Api/RegisterController`, `UtilisateurCrudController`, `UtilisateurRepository` | table `utilisateur` | `Comptes`; deletion with loans in `Circulation` |
| Catalogue | `Entity/Livre`, `Auteur`, `Categorie` and their CRUD controllers | three tables, two join tables | `Catalogue`; deletion with loans in `Circulation` |
| Search | `LivreRepository`, `AuteurRepository`, their API controllers | none | `Catalogue` (joins, filters), `Pagination` (pages) |
| List pages | `livres-list.ts`, `auteurs-list.ts` | signals, requests in flight | `CatalogueListe` |
| Profile page | `profil.ts`, `UserActionsController` | signals, requests in flight | `Profil` |
| Login, logout, bridge | `auth-service.ts`, `auth-interceptor.ts`, `app.ts`, `login.ts`, `SsoController`, `AdminAuthenticator`, `security.yaml` | token, PHP session, signals | `SessionAuth` |
| Schema | `migrations/` | keys, cascades, indexes | in the modules of the tables |

Members reserve through the API. Librarians lend, take back and correct in the
back office. Both write the same tables. The front end only reads, reserves,
cancels and saves a profile. Front and back office each have a login; a bridge
(`SsoController`) passes from one to the other.

## Modules

| Module | Content |
|---|---|
| `Circulation` | loans and reservations, every request that writes them, query by query |
| `Bibliotheque` | what the library promises: the same operations, each one atomic step |
| `Retards` | begin and return dates, the clock, lateness, the printed sheet |
| `Comptes` | accounts: registration, forms, profile update, rehash at login |
| `Catalogue` | books, authors, categories, their links and the search |
| `Pagination` | the arithmetic of pages, and what it should compute |
| `CatalogueListe` | the list page, its requests and the API that answers them |
| `VueListe` | what a list page promises its reader |
| `Profil` | the member's page, composed with `Bibliotheque` |
| `SessionAuth` | token, session, tabs and the bridge |
| `MC...` | instances for TLC |
| `..._proofs` | theorems, eight modules |

### History variables

Many properties hold only for people who wait, or requests that do not overlap.
A history variable records that this has ceased to be true, and the property
has it as its condition. One run then explores every scenario, and the theorem
needs no assumption.

| Variable | Records |
|---|---|
| `ecarts` (`CatalogueListe`, `Profil`, `SessionAuth`) | haste, a failed request, fields not submitted, a librarian at the desk, an edit of the account, the back office's own login |
| `actifs` (`SessionAuth`) | the tabs a person has used |
| `saisis`, request field `main` (`Retards`) | loans whose dates were typed in a form |
| request fields `seul` (`Retards`, `Comptes`, `Catalogue`), `libre` (`Comptes`) | nobody else has written since this request read |
| request field `recu` (`Retards`) | when the return was asked for |

No guard reads them.

### Requests on the server

A PHP worker (`w \in Workers`) serves one request at a time. Nothing in the code
opens a transaction or takes a lock: Doctrine runs each SELECT on its own and
sends all writes of a handler in one transaction, at `flush()`. A step of a
worker is therefore one query or one flush, and workers interleave between
steps. `requetes[w]` is the handler, its next step and what PHP memory holds.
`Echec` ends a request at any step with nothing written: a rejected flush, a
refused form, a lost connection. `Circulation`, `Retards`, `Comptes` and
`Catalogue` are all built this way.

### Circulation: state and steps

| Variable | Code |
|---|---|
| `emprunts`, `reservations` | rows of the two tables; `dateRetour` is `"null"` or `"posee"` |
| `livres`, `utilisateurs` | rows that still exist |
| `seqEmprunt`, `seqReservation` | AUTO_INCREMENT counters |
| `requetes[w]` | the handler (`op`), its next query (`pas`) and what PHP memory holds: entity, change set, rows to remove, violation reported, identity map |

| Action | Code |
|---|---|
| `Reserver`, `SupprimerReservation` | `POST` and `DELETE /api/reservations/{id}` (the latter also the back office's) |
| `NouvelleReservation`, `EditerReservation`, `NouvelEmprunt`, `EditerEmprunt` | back office forms |
| `TransformerEnEmprunt`, `RendreLivre` | the two links of the back office |
| `SupprimerEmprunt`, `SupprimerLivre`, `SupprimerUtilisateur` | back office deletions, with Doctrine's cascade to reservations |
| `ReservationRegle1` to `3`, `EmpruntRegle1`, `2` | one query and test of a rule each |
| `PersistLivre`, `PersistQuota`, `PersistReservation` | the three checks of `persistEntity` |
| `Flush...` | the transaction of each kind of handler, with foreign keys |
| `Echec` | a request that dies: rejected flush, lost connection |

Points of detail that matter:

- The API stops at the first broken rule; a validator runs all of them and
  reports at the end (`erreur`).
- The validator skips every rule for a loan with a return date. `persistEntity`
  does not.
- `persistEntity` looks at entities the validator has already loaded. Doctrine
  does not refresh them, so it may see an older return date (`lus`).
- An UPDATE writes only the columns the form changed. An UPDATE or DELETE of a
  row that is gone affects nothing and reports nothing.
- Deleting a book removes the reservations found when `remove()` runs. One
  inserted later makes the foreign key reject the whole deletion.

Abstractions: rows of books and members exist from the start, since creating
one touches no loan; loan and reservation dates other than "returned or not"
are left out; a rejected insert uses no id; a request refused at its first
query changes nothing and is a stuttering step.

### Bibliotheque: the promise

Each operation is one atomic step on the tables, guarded by the rules. The
constant `Tolerance` is the number of rows a rule may be overshot by.
`Circulation` implements it (`TientPromesse`) with `Tolerance` equal to the
number of workers minus one: exact with one worker.

### Retards: dates

The loan handlers of `Circulation` again, seen from the two date columns.
`horloge` counts ticks, `TicsParSeconde` to a second and `TicsParJour` to a day;
`Duree` is the 15 days. A date is taken when the handler runs (`Emprunter`,
`RendreLivre`) and written by a later flush (`FlushNouveau`, `FlushDates`), while the
clock (`Tic`) goes on. PHP's dates have microseconds and the DATETIME columns whole
seconds: a flush drops the fraction (`Colonne`). The edit form writes the date columns
it changed, with any date of `Saisies`. `IsEnRetard` is `getIsEnRetard`, both branches.
`StatutFiche` is the Twig template of the printed sheet, that computes its own limit
(`LimiteFiche`).

### Comptes: accounts

A row has an address, a password and one other column. `Pli` maps an
address to what the collation compares: the unique index and `findOneBy` ignore
case, PHP's comparison does not. A stored password is a hash, which is
told apart from the clear text it was made from. `lu` is what a handler read,
`ecrit` what it will write: an UPDATE writes the columns where they differ, and the
password whenever one was typed, since its hash has a new salt. `porte` is what the
request carried: the keys of the body, the fields of the form, an empty password field
being none.
`FlushInsertion` refuses a row without membership date, so `Register`, which sets
none, never creates an account. `Login` stands for the rehash that Symfony
asks of `upgradePassword`.

### Catalogue: links and search

Authors and categories are linked to a book in the same way and are called
notices. A form that is submitted (`Editer`) reads the links of its book as they are
then (`lu`) and carries the ones chosen (`choix`). Displaying it is an earlier request
that leaves nothing on the server, so the choice may be any, made on links that have
changed since. The `Flush...` actions delete and insert the difference, with foreign
keys and cascades. The search is the relational query: rows of two left joins, kept by
`LIKE` filters that are false on NULL (`RangeesGardees`). `Vide` is a search field that
PHP's `empty()` skips, `''` or `'0'`.

### CatalogueListe: a list page

The signals of `LivresList` and its requests in flight. `OnSearch` and
`GoToPage` send a request; Doctrine's Paginator counts (`Compter`), reads the ids of
the page (`Choisir`), then their rows, three queries between which the catalogue may
change. The third is taken together with the answer (`Reponse`), which may lack a row
for each change made since the ids were read. The answer or
failure arrives in any order relative to others, and the component applies every
one. Rows are told apart by number only: `nb[r]` books match `r`.
`CatalogueListe` implements `VueListe` under the mapping: requests under way are
the demands, the list is the view, the spinner the waiting.

### Profil: the member's page

Each filling of the page is a `forkJoin` of three requests (`jeux`), each
answered at its own moment; `Remplir` applies them when all have come,
`RemplirErreur` when one fails. `OnAnnuler` and `OnSaveProfil` send their requests,
whose answers refresh the page or the profile. The tables behind are those of
`Bibliotheque`: a cancellation is its `Annuler`, and the librarian (`Guichet`)
takes its `Preter`, `Rendre` and `Annuler` at any moment. The back office may also edit
the account (`Compte`), the very columns the profile form saves. A save therefore takes
two steps on the server: it reads the account (`Charger`), and its flush writes the
column when the form changed what was read (`UpdateMe`).

### SessionAuth: login and bridge

Tabs share `jeton` (localStorage) and `session` (the PHP session cookie); each
has its page, signals, requests in flight and a pending navigation.
`Requetes(t)` answers and delivers requests; `Navigation(t)` follows the
pending URL: the front page with its query parameters, the two ends of the bridge,
logout and its redirection, the back office. `Personne(t)` is what a person
does. Tokens and sessions expire at any time (`Expirer`). Assigning
`window.location.href` does not stop the page: answers are still applied until the
navigation happens.

## Runs

| Run | Instance | Properties | States |
|---|---|---|---|
| `serie` | 1 worker, all requests | `ControleRedondant`, `PasDeDoubleTitre`, `TientPromesse` | 359,752 |
| `prets_concurrents` | 2 workers: reserve, lend, transform, return | `QuotaEmprunts`, `PretsParLivre`, `TientPromesse` | 1,011,392 |
| `reservations_concurrentes` | 2 workers: reserve (both ways), lend, all deletions | `InvInductif`, `TypeOK`, `QuotaReservations`, `ReservationsParLivre`, `ReservationHonoree`, `TientPromesse` | 1,990,126 |
| `double_pret` | 2 workers, as `prets_concurrents` | violates `JamaisEmprunteDeuxFois` | |
| `double_reservation` | 2 workers, as `reservations_concurrentes` | violates `JamaisTropDeReservations` | |
| `historique_bloque` | 1 worker, as `prets_concurrents` | violates `HistoriqueJamaisBloque` | |
| `retards` | 2 workers, 2 loans, 7 ticks | `Chronologie`, `RetardPermanent`, `RetourUneFois` | 2,978,802 |
| `comptes` | 2 workers, 2 accounts, 3 addresses | `Inv`, `SansCollision`, `RienNEstPerdu` | 2,386,419 |
| `catalogue` | 2 workers, 1 book, 2 authors, 1 category | `LiensValides`, `RechercheJuste`, `DernierFormulaire` | 1,326,391 |
| `liste` | 2 searches, 3 books, pages of 2, 3 requests | `SablierJustifie`, `PagesRemplies`, `ListeAJour`, `AucunLivre`, `ChargementFinit`, `TientPromesse` | 230,200 |
| `profil` | 2 reservations, 1 loan, 3 fillings or saves | `Inv`, `ProfilAJour`, `AnnuleeInvisible`, `SuccesVrai`, `PageRepond`, `AnnulationVue` | 530,968 |
| `session` | 2 tabs, 2 accounts, 3 gestures | `Inv`, `JetonVisible`, `MemeCompte`, `DeconnexionComplete`, `PasDeBoucle` | 532,102 |

Deadlock is checked, except in `serie`, `reservations_concurrentes`,
`double_reservation`, `profil` and `session`: with no book or member left, or the
bound on what a person does used up, there is nothing more to do.

### Bounds

- Circulation: two members, two books, limits of one. The code's limits are 5
  and 3; rules only compare a count with the limit, and "below", "at" and "over"
  are all reached. Three inserts let a rule be overshot by more than its
  tolerance if the code were wrong.
- `retards`: a limit of one day of two seconds, of two ticks each, so that loans end
  at the limit, within the second after it and a second after it; 2 is a typed date,
  past or future as the clock runs.
- `comptes`: one address in two cases, and the empty one; two accounts are the
  fewest that collide.
- `catalogue`: a book with two authors and a category makes joins of zero, one and
  two rows.
- `liste`: three books on pages of two make an empty, a full and a partial page,
  three requests let two be overtaken; the back office makes one change.
- `profil`: after the first filling a member sends two requests (`MaxEnvois` counts
  fillings, cancellations and saves): two cancellations whose refreshes overlap and end
  in either order, two saves, or one of each. With no bound on the
  sum and a second loan TLC takes more than twenty minutes.
- `session`: three gestures and expiries reach logging in on the front, going to the
  back office and logging out there, or two tabs at once. `MaxJetons` is
  more than they can issue.

### What the runs show

- Served one by one, requests keep every rule of loans and reservations exactly,
  edits included, and the second check in `persistEntity` is redundant for loans
  in progress.
- With two workers each rule can be overshot, by one row and no more: it is
  checked by a query and relied upon by a later flush, and each other worker can
  slip in one row. `double_pret` and `double_reservation` are the shortest cases.
- A past loan entered with its return date can be refused by `persistEntity`,
  against the validator's comment (`historique_bloque`).
- No interleaving loses a reservation or leaves a row whose book or member is gone.
- Dates that the code sets are in order whatever the delays. A return is
  recorded twice only when two requests on the loan overlap. A loan late by a second
  stays late, on the list and on the sheet. Within the second after the limit it does
  not: it is late until it is returned, and in time afterwards, because the return is
  written without its fraction.
- The test of `updateMe` suffices for a request that nobody overtakes; the unique index
  decides otherwise. A field that a request did not carry is never written back: an
  empty password field keeps a password saved meanwhile. One that was typed is written,
  also over a newer one, and so is the rehash of a login that was overtaken.
- A form on the catalogue has the last word: it leaves the links chosen in it, and so
  takes away those that others added since it was displayed. Only requests that overlap
  on the server merge. The search finds the right books; with a word asked of the
  author, each comes with only the authors that match.
- The list is right for a reader who waits for the spinner and submits what they
  type. Without that condition the last answer to arrive wins.
- The profile page is right for a member who waits. Two hasty cancellations may
  show a cancelled reservation again, the older refresh ending last. "Profil mis à jour
  avec succès." is true of a save sent after the back office edited the account, and
  may be untrue when the edit comes while the save is handled or later.
- With one tab a token is always shown as a login, and logging out leaves
  nothing. Without that condition TLC finds a tab that does not know of the login
  in another, and a login in one tab while the other logs out. The
  redirections come to an end in every case.

With the edit forms and two workers the overshoot of the loan rules has no bound.
One edit moves a returned loan to another member or book, unchecked because it has
a return date. Another edit of the same loan clears the date, checked against the
old member and book. Each writes only its own columns, and nobody checked the
result. TLC finds this in the instance of `prets_concurrents` when the edit form of
loans is among the requests. The concurrent runs therefore leave out the edit forms
(`OpsEdition`), and the theorems on limits assume `SansCourse`: no edit forms, or
one worker.

### Fairness

`liste`, `profil` and `session` use `FairSpec`: weak fairness of each request under
way (PHP ends it or stops it at `max_execution_time`; the browser hands its
subscriber the answer or the failure) and, in `session`, of each tab's
navigation. Weak fairness is enough because nothing disables a request but its
own end or leaving the page. Nothing is asked of people, librarians, clocks or the network: every
request may fail. The other modules claim no liveness: a request ends after a
bounded number of queries, and what clients ask for is up to them.

## Proofs

The theorems hold for every value of the constants, under the `...Hypotheses` of
each module (finite workers, positive limits and page size, distinct nulls). "Edits"
are the two edit forms of the back office; `SansCourse` is "no edits, or one worker".

| Module | Theorems | Assumes |
|---|---|---|
| `Circulation_proofs` | `TypeCorrect`, `IdsUniques` | nothing more |
| | `DepassementBorne`, `QuotaEmpruntsTenu`, `PretsParLivreTenu`, `QuotaReservationsTenu`, `ReservationsParLivreTenu` | `SansCourse` |
| | `SansConcurrenceExact` | one worker |
| `CirculationPromesse_proofs` | `InvariantPromesse`, `ImplementeBibliotheque`, `SansDoubleTitre` | `SansCourse` |
| | `IdsReperes` | no reservation edits, or one worker |
| | `ReservationsHonorees` | no reservation edits |
| | `IdentityMapFraiche` | nothing more |
| | `ControleRedondantSeul` | one worker |
| `Retards_proofs` | `InvariantDesDates`, `ChronologieTenue`, `RetardResteRetard`, `RetourEnregistreUneFois` | nothing more |
| `Comptes_proofs` | `InvariantDesComptes`, `RienNEstEcrase`, `TestSuffisant` | nothing more |
| `Catalogue_proofs` | `LiensToujoursValides`, `FormulaireEnregistre`, `RechercheToujoursJuste` | nothing more |
| `CatalogueListe_proofs` | `PagesToujoursCorrectes`, `SablierToujoursJustifie`, `ListeToujoursAJour`, `PagesToujoursRemplies`, `MessageVrai`, `ImplementeVueListe` | nothing more |
| `SessionAuth_proofs` | `InvariantDesSessions`, `JetonToujoursVisible`, `DeconnexionToujoursComplete`, `UnSeulCompte` | nothing more |
| `Profil_proofs` | `InvariantDuProfil`, `ProfilFidele`, `AnnuleeNeRevientPas`, `MessageVrai` | nothing more |

Steps. After its reception a request takes steps that only query or end it
(`Verification`) and one that writes (`Ecriture`); `UneEtape` says there are no
others. Most lemmas are about one of these groups.

Ids. `IdsUniques` holds for every mix of requests: an UPDATE replaces the row of its
id, if it is still there, and an INSERT takes an id not handed out yet. It is what
makes "the row a request read" mean anything at the flush.

Limits. The bound on rows is not inductive: a request past the check will add a
row whatever the table says by then. `InvInductif` counts both: rows plus requests
past the rule (`AttendPretDe`, `AttendPretSur`, `AttendResaDe`, `AttendResaSur`) stay
within limit + W - 1. Three kinds of step matter (lemma `Bilan`). A step that moves
a request on may add it to those past the rule, but only if the rows alone were
below the limit, and then at most W requests can be past it (`ProgresInvariant`).
A flush turns one such request into one row (`EnregistreInvariant`). Everything else
only shrinks both.

Edits. The flush of an edit is not of that kind: it may move a row from one member
and book to another, and the rules were checked without the row itself. With several
workers nothing bounds the result (see above). With one worker, `InvEdition` says what
the request still knows at each step: the columns it will not write hold what the
form showed, and each rule passed so far still holds of the other rows. Its flush
then leaves every count either no larger than before or within its limit (`Corrige`,
`FlushEdition`), and no other request is under way to be counted.

Reservations. A request holds ids found by an earlier query. `InvIds` says that no
request holds an id not handed out yet, and that the reservations it would delete are
those of its own member and book. An id is never used again, so this stays true until
the flush. A reservation edit can change the member or the book of a row, so another
worker's request may then hold an id that stands for something else: hence the
condition of `IdsReperes`. `ReservationsHonorees` leaves that form out altogether,
since to edit a reservation is to replace it.

Refinement (`ImplementeBibliotheque`). Each flush is mapped to one action of
`Bibliotheque`, by one lemma `Promesse...` per kind of flush; a flush that finds its
row gone, and every other step, stutters. A lent or reserved row needs room: the
request was counted by `InvInductif`, so the rows alone are below the bound (`Place`).
An edit needs it too, and has it by `InvEdition`. `InvPromesse` adds what the limits do
not say. A reservation at its flush passed rule 3, so loans of its book, and requests
about to lend it, number at most W - 1 (`LivreLibre`). A single worker holds the id of
the one reservation its loan uses up (`ReservationConnue`).

One worker. `SansDoubleTitre` follows from `LivreLibre` and `ReservationConnue`; an edit
may still create such a pair, and the property says so. `ControleRedondantSeul` needs
that the identity map agrees with the table (`LusFrais`): then `persistEntity` counts
the very loans the validator counted.

Dates. `Chronologie` is not inductive: a return under way will be written later.
`InvChronologie` adds that it is dated when it was asked for, no earlier than its loan
began and no later than now, and that its loan is not returned while nobody else has
written it. The first date of a loan is a whole number of seconds, so a return that
loses its fraction still does not come before it. For `RetardResteRetard` the fraction is
dropped on both sides: truncation is monotone, and the limit is whole.

Accounts. `Inv` ties each request to an account by an id already given, and says that it
will write what it carried and otherwise what it read, so that a column it did not carry
is not in the change set. A login nobody overtook still finds the password it verified.
`AdresseLibre` says that once the test of `updateMe` has passed, no account has the
address until somebody writes.

Catalogue. `Inv` says that the links a form will write end in rows that were there
once; the foreign keys do the rest. It also says that, while no other request has changed
the links of its book, what a form read is what the table holds: then the difference it
writes leaves the links chosen (`FormulaireEnregistre`). `RechercheToujoursJuste` needs no invariant: it
is a fact about the joins, for every content of the tables.

List. `Inv` numbers the requests under way, the last being the only one for a reader
who waits. `InvPages` adds, for a quiet reader, that each asks for a page that
exists, and that what the server has counted and chosen for it is right. Pages rest on the arithmetic of ceilings (`Plafond`, `DansTranche`).
`ImplementeVueListe` shows each step a step or a stutter of `VueListe`.

Sessions. `Inv` says that requests belong to front pages and that bridges carry
tokens. `Oisifs`: a tab nobody used has nothing under way. With one tab used, each
property is then an invariant of that tab: `SessionFermee` for logging out, and for
`MemeCompte` that token and session disagree only on the way to the bridge, or when
the token has expired and the front has yet to learn it (`AccordOnglet`).

Profile. What the page shows is not inductive: a refresh under way will replace it by
what it read. `Inv` follows the requests. A member who waits has one thing under way,
a refresh exactly while the spinner turns (`UneChoseALaFois`). Unless the back office
edits the account, nobody else then writes the profile under a refresh or a save: a save
finds at its flush what it read, and brings its message with the value it wrote
(`ProfilSuivi`). Sending a save starts afresh after such an edit, so `PageSuivie` has to
hold of loans and reservations after one too. Reservations never come back (`AnnuleesParties`), so a refresh begun
after a cancellation does not see it (`SansAnnulees`). Without failures and librarians
everything a refresh has read is still true when it is shown (`PageSuivie`).

### Only model-checked

- `ChargementFinit`, `PageRepond`, `AnnulationVue`, `PasDeBoucle` and the liveness part of
  the list's `TientPromesse`: liveness under fairness is out of the prover's reach.
- The three runs that find a violation: a theorem cannot say that a behaviour exists.

## Not modelled

- Book and author pages (`livre-detail.ts`, `auteur-detail.ts`): one request at the
  start; the button 'Réserver' sends the request of `Circulation` and shows its
  answer. What they show may be out of date, and the server's rules decide.
- Categories API, statistics: one read, no state.
- Routes, guards, static pages, the layout of the PDF, fixtures: no state.
- `remember_me`, the login form's target path, CSRF tokens, roles, and accounts deleted
  while a token is in use: `SessionAuth` follows accounts that stay.
- A change of address on the profile page: it ends in `logout()`, an action of
  `SessionAuth`.
- `refreshData` of a visitor who is not logged in: the page is behind `authGuard`, and
  `isLoggedIn` goes false only when the browser leaves it. The account deleted by the
  back office while its page is open.
- Which rows a page of the list holds: the queries have no ORDER BY, so their order is
  the engine's choice. The proofs and runs on pages are about how many rows they hold and
  which positions of the result, not which books.
- Creation of books and members in `Circulation`: it touches no loan.
- `mariadb-fp/`: a copy of the database server with its C headers, third-party code and
  most of the repository's lines. Its transactions, keys and collation are modelled
  where they decide.
