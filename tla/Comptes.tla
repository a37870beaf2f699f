------------------------------ MODULE Comptes ------------------------------
(***************************************************************************)
(* The members' accounts: table utilisateur and the handlers that write    *)
(* it, interleaved between PHP workers.  A handler reads the row, checks   *)
(* what it checks, and writes at its flush the columns that differ from    *)
(* what it read; MariaDB's unique index on email has the last word.        *)
(* Who may call a handler is left out: a refused request changes nothing.  *)
(***************************************************************************)
EXTENDS Integers, FiniteSets

CONSTANTS
    Workers,        \* PHP workers, each serving one request at a time
    Emails,         \* addresses as written, the empty one included
    Vide,           \* the empty address
    Pli,            \* Pli[e]: the address up to case, as the collation compares
    MotsDePasse,    \* passwords
    Coordonnees,    \* values of the other columns of the profile form
    Absent,         \* a key missing from a JSON body, an empty password field
    Operations,     \* the handlers in use
    MaxIdCompte     \* bound: the largest id

VARIABLES
    comptes,        \* rows of table utilisateur
    seqCompte,      \* next AUTO_INCREMENT value
    requetes        \* the request each worker is serving

vars == <<comptes, seqCompte, requetes>>

ASSUME ComptesHypotheses ==
    /\ Vide \in Emails
    /\ DOMAIN Pli = Emails
    /\ MaxIdCompte \in Nat
    /\ Absent \notin Emails /\ Absent \notin MotsDePasse /\ Absent \notin Coordonnees

\* UserPasswordHasherInterface::hashPassword.
Hache(motDePasse) == [hache |-> motDePasse]

Colonne == {"email", "password", "coord"}

Compte == [id : Nat, email : Emails, password : [hache : MotsDePasse],
           coord : Coordonnees]

\* What the keys or the fields of a request say of each column.
Saisie == [email : Emails \cup {Absent}, password : MotsDePasse \cup {Absent},
           coord : Coordonnees \cup {Absent}]

Rien == [email |-> Absent, password |-> Absent, coord |-> Absent]

\* lu: the row as the request read it (its id is 0 in an insertion);
\* ecrit: the entity as the request will save it; adhesion: dateAdhesion is set;
\* porte: what a request on an account carried.  History: libre, the test of the
\* address passed and nobody has written since; seul, of a login, nobody has written
\* the account since it was read.
Requete == [op : {"repos", "register", "updateMe", "new", "edit", "delete",
                  "login"},
            pas : {"repos", "email", "flush"},
            lu : Compte \cup {Absent}, ecrit : Compte \cup {Absent},
            porte : Saisie,
            adhesion : BOOLEAN, libre : BOOLEAN, seul : BOOLEAN]

Repos == [op |-> "repos", pas |-> "repos", lu |-> Absent, ecrit |-> Absent,
          porte |-> Rien, adhesion |-> FALSE, libre |-> FALSE, seul |-> FALSE]

Init ==
    /\ comptes = {}
    /\ seqCompte = 1
    /\ requetes = [w \in Workers |-> Repos]

-----------------------------------------------------------------------------
(* A request arrives: the handler reads the account and fills the entity. *)

Recevoir(w, op, pas, lu, ecrit, porte, adhesion) ==
    /\ op \in Operations
    /\ requetes[w].op = "repos"
    /\ requetes' = [requetes EXCEPT ![w] =
                      [op |-> op, pas |-> pas, lu |-> lu, ecrit |-> ecrit,
                       porte |-> porte, adhesion |-> adhesion, libre |-> FALSE,
                       seul |-> op = "login"]]
    /\ UNCHANGED <<comptes, seqCompte>>

\* A missing key or an empty field leaves the column as it was read.
Sinon(valeur, ancienne) == IF valeur = Absent THEN ancienne ELSE valeur

\* POST /api/register: the date of membership is never set.
Register(w) == \E e \in Emails \ {Vide}, p \in MotsDePasse, k \in Coordonnees :
    Recevoir(w, "register", "flush", Absent,
             [id |-> 0, email |-> e, password |-> Hache(p), coord |-> k],
             Rien, FALSE)

\* The back office's form for a new account: the address and the date of
\* membership are validated, uniqueness is not.
Nouveau(w) == \E e \in Emails \ {Vide}, p \in MotsDePasse, k \in Coordonnees :
    Recevoir(w, "new", "flush", Absent,
             [id |-> 0, email |-> e, password |-> Hache(p), coord |-> k],
             Rien, TRUE)

\* Mutant: an empty password field is hashed and saved like any other.
MotDePasseEdite_sansTest(c, p) == Hache(p)

\* updateEntity: an empty field restores the hash that was read.
MotDePasseEdite(c, p) == IF p = Absent THEN c.password ELSE Hache(p)

Editer(w) == \E c \in comptes :
    \E e \in Emails \ {Vide}, p \in MotsDePasse \cup {Absent}, k \in Coordonnees :
        Recevoir(w, "edit", "flush", c,
                 [c EXCEPT !.email = e, !.password = MotDePasseEdite(c, p),
                           !.coord = k],
                 [email |-> e, password |-> p, coord |-> k], TRUE)

\* PUT /api/user/me, up to the test of the address.
UpdateMe(w) == \E c \in comptes :
    \E e \in Emails \cup {Absent}, k \in Coordonnees \cup {Absent} :
        Recevoir(w, "updateMe",
                 IF e \in {Absent, c.email} THEN "flush" ELSE "email", c,
                 [c EXCEPT !.email = Sinon(e, c.email),
                           !.coord = Sinon(k, c.coord)],
                 [Rien EXCEPT !.email = e, !.coord = k], TRUE)

\* A successful login with a password whose hash is out of date: the listener
\* calls UtilisateurRepository::upgradePassword with a new hash of it.
Login(w) == \E c \in comptes, p \in MotsDePasse :
    /\ c.password = Hache(p)
    /\ Recevoir(w, "login", "flush", c, [c EXCEPT !.password = Hache(p)],
                [Rien EXCEPT !.password = p], TRUE)

Supprimer(w) == \E c \in comptes :
    Recevoir(w, "delete", "flush", c, c, Rien, TRUE)

-----------------------------------------------------------------------------
(* updateMe's findOneBy(['email' => ...]). *)

\* Mutant: the query compares addresses with their case.
Trouve_casse(e) == {c \in comptes : c.email = e}

Trouve(e) == {c \in comptes : Pli[c.email] = Pli[e]}

Fin(w) == requetes' = [requetes EXCEPT ![w] = Repos]

VerifierEmail(w) ==
    /\ requetes[w].pas = "email"
    /\ IF Trouve(requetes[w].ecrit.email) # {}
       THEN Fin(w)                                             \* 409
       ELSE requetes' = [requetes EXCEPT ![w].pas = "flush", ![w].libre = TRUE]
    /\ UNCHANGED <<comptes, seqCompte>>

-----------------------------------------------------------------------------
(* flush() *)

\* Mutant: every column is written, changed or not.
Change_tout(r, colonne) == TRUE

\* Doctrine's change set.  A password that was typed is always in it, the same as
\* before or not: its hash has a new salt.
Change(r, colonne) ==
    \/ r.lu[colonne] # r.ecrit[colonne]
    \/ colonne = "password" /\ r.porte.password # Absent

EcritLigne(r, c) ==
    [c EXCEPT
        !.email = IF Change(r, "email") THEN r.ecrit.email ELSE c.email,
        !.password = IF Change(r, "password") THEN r.ecrit.password
                                              ELSE c.password,
        !.coord = IF Change(r, "coord") THEN r.ecrit.coord ELSE c.coord]

\* UNIQ_IDENTIFIER_EMAIL, under the collation of the column.
IndexUnique(lignes) == \A c, d \in lignes :
    Pli[c.email] = Pli[d.email] => c.id = d.id

\* The request ends and has written account id: what the others tested, and what
\* they read of that account, may be out of date.
FinEcrite(w, id) == requetes' = [v \in Workers |->
    IF v = w THEN Repos
    ELSE [requetes[v] EXCEPT !.libre = FALSE,
                             !.seul = @ /\ requetes[v].lu.id # id]]

Inseres(r) == comptes \cup {[r.ecrit EXCEPT !.id = seqCompte]}

MisAJour(r) == {IF c.id = r.lu.id THEN EcritLigne(r, c) ELSE c : c \in comptes}

\* date_adhesion NOT NULL, and the unique index.
AccepteInsertion(r) == r.adhesion /\ IndexUnique(Inseres(r))

FlushInsertion(w) ==
    LET r == requetes[w]
    IN  /\ r.pas = "flush" /\ r.op \in {"register", "new"}
        /\ seqCompte <= MaxIdCompte
        /\ AccepteInsertion(r)
        /\ comptes' = Inseres(r)
        /\ seqCompte' = seqCompte + 1
        /\ FinEcrite(w, seqCompte)

FlushMiseAJour(w) ==
    LET r == requetes[w]
    IN  /\ r.pas = "flush" /\ r.op \in {"updateMe", "edit", "login"}
        /\ IndexUnique(MisAJour(r))
        /\ comptes' = MisAJour(r)
        /\ FinEcrite(w, r.lu.id)
        /\ UNCHANGED seqCompte

FlushSuppression(w) ==
    LET r == requetes[w]
    IN  /\ r.pas = "flush" /\ r.op = "delete"
        /\ comptes' = {c \in comptes : c.id # r.lu.id}
        /\ FinEcrite(w, r.lu.id)
        /\ UNCHANGED seqCompte

\* The request dies, a constraint of the database refuses it, or the access
\* rules do: nothing is written.
Echec(w) ==
    /\ requetes[w].op # "repos"
    /\ Fin(w)
    /\ UNCHANGED <<comptes, seqCompte>>

Next == \E w \in Workers :
    \/ Register(w) \/ Nouveau(w) \/ Editer(w) \/ UpdateMe(w) \/ Login(w)
    \/ Supprimer(w)
    \/ VerifierEmail(w)
    \/ FlushInsertion(w) \/ FlushMiseAJour(w) \/ FlushSuppression(w)
    \/ Echec(w)

Spec == Init /\ [][Next]_vars

-----------------------------------------------------------------------------
(* Properties. *)

TypeOK ==
    /\ comptes \subseteq Compte
    /\ seqCompte \in Nat \ {0}
    /\ requetes \in [Workers -> Requete]

\* The value that a request carried for a column.
Porte(r, k) == IF k = "password" THEN Hache(r.porte.password) ELSE r.porte[k]

\* An id stands for one account, requests know accounts by ids already given, save
\* what they carried and otherwise what they read, and a login that nobody overtook
\* finds the password it verified.
InvComptes ==
    /\ \A c, d \in comptes : c.id = d.id => c = d
    /\ \A c \in comptes : c.id < seqCompte
    /\ \A w \in Workers :
        LET r == requetes[w]
        IN  /\ r.op \in Operations \cup {"repos"}
            /\ r.op # "repos" => r.ecrit \in Compte
            /\ r.op \in {"updateMe", "edit", "login", "delete"} =>
                    /\ r.lu \in Compte /\ r.lu.id < seqCompte
                    /\ r.ecrit.id = r.lu.id
                    /\ \A k \in Colonne :
                          r.ecrit[k] = IF r.porte[k] = Absent THEN r.lu[k]
                                                             ELSE Porte(r, k)
            /\ r.op = "login" => r.ecrit = r.lu
            /\ r.op = "login" /\ r.seul =>
                    \A c \in comptes : c.id = r.lu.id => c.password = r.lu.password

\* The types, and the inductive invariant: what the proofs rest on.
Inv == TypeOK /\ InvComptes

\* A column of an account changes only because a request on the account carried
\* another value for it (a key of updateMe's body, a field of the form), to that
\* value: a key that is missing, or a password field left empty, never undoes what
\* was saved since the request read the account (updateEntity, Doctrine's change
\* set).  A login changes the password only when the account was written between
\* its test and its flush (upgradePassword).
ModifVoulue ==
    \A c \in comptes : \A d \in comptes' : \A k \in Colonne :
        d.id = c.id /\ d[k] # c[k] =>
            \E w \in Workers :
                LET r == requetes[w]
                IN  /\ r.op \in {"updateMe", "edit", "login"} /\ r.lu.id = c.id
                    /\ r.porte[k] # Absent /\ d[k] = Porte(r, k)
                    /\ r.op = "login" => ~r.seul

RienNEstPerdu == [][ModifVoulue]_vars

\* A change of address that updateMe let through is refused by the unique index
\* only when another request wrote the accounts after its test: findOneBy sees
\* every conflict the index sees.
SansCollision == \A w \in Workers :
    LET r == requetes[w]
    IN  r.op = "updateMe" /\ r.pas = "flush" /\ (r.libre \/ ~Change(r, "email"))
            => IndexUnique(MisAJour(r))
=============================================================================
