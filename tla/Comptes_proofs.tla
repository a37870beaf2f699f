--------------------------- MODULE Comptes_proofs ---------------------------
(***************************************************************************)
(* Proofs about Comptes, for any number of workers, addresses, passwords   *)
(* and handlers in use.                                                    *)
(***************************************************************************)
EXTENDS Comptes, TLAPS

\* What Inv says of one request.
RequeteOK(r) ==
    /\ r.op \in Operations \cup {"repos"}
    /\ r.op # "repos" => r.ecrit \in Compte
    /\ r.op \in {"updateMe", "edit", "login", "delete"} =>
            /\ r.lu \in Compte /\ r.lu.id < seqCompte
            /\ r.ecrit.id = r.lu.id
            /\ \A k \in Colonne :
                  r.ecrit[k] = IF r.porte[k] = Absent THEN r.lu[k] ELSE Porte(r, k)
    /\ r.op = "login" => r.ecrit = r.lu
    /\ r.op = "login" /\ r.seul =>
            \A c \in comptes : c.id = r.lu.id => c.password = r.lu.password

\* What Inv says of the accounts.
ComptesOK ==
    /\ \A c, d \in comptes : c.id = d.id => c = d
    /\ \A c \in comptes : c.id < seqCompte

\* Inv in two parts.
LEMMA InvEnParties ==
    Inv <=> TypeOK /\ ComptesOK /\ \A w \in Workers : RequeteOK(requetes[w])
BY DEF Inv, InvComptes, ComptesOK, RequeteOK

\* Repos is a request.
LEMMA ReposType == Repos \in Requete
BY DEF Repos, Requete, Rien, Saisie

\* The invariant holds at first.
LEMMA InitInv == Init => Inv
BY ReposType DEF Init, Inv, TypeOK, InvComptes, Repos

\* A handler that has read an account of the table, or none, may start.
LEMMA RecevoirInv ==
    ASSUME Inv, NEW w \in Workers,
           NEW op \in {"register", "updateMe", "new", "edit", "delete", "login"},
           NEW pas \in {"email", "flush"}, NEW lu \in Compte \cup {Absent},
           NEW ecrit \in Compte, NEW porte \in Saisie, NEW adhesion \in BOOLEAN,
           op \notin {"register", "new"} =>
                /\ lu \in comptes /\ ecrit.id = lu.id
                /\ ecrit.email = IF porte.email = Absent THEN lu.email
                                                         ELSE porte.email
                /\ ecrit.password = IF porte.password = Absent THEN lu.password
                                                        ELSE Hache(porte.password)
                /\ ecrit.coord = IF porte.coord = Absent THEN lu.coord
                                                         ELSE porte.coord,
           op = "login" => ecrit = lu,
           Recevoir(w, op, pas, lu, ecrit, porte, adhesion)
    PROVE  Inv'
<1> DEFINE b == op = "login"
           r == [op |-> op, pas |-> pas, lu |-> lu, ecrit |-> ecrit,
                 porte |-> porte, adhesion |-> adhesion, libre |-> FALSE,
                 seul |-> b]
<1>0. TypeOK /\ ComptesOK /\ \A v \in Workers : RequeteOK(requetes[v])
    BY InvEnParties
<1>1. /\ requetes' = [requetes EXCEPT ![w] = r]
      /\ UNCHANGED <<comptes, seqCompte>> /\ op \in Operations
    BY DEF Recevoir
<1>b. b \in BOOLEAN
    OBVIOUS
<1> HIDE DEF b
<1>2. r \in Requete
    BY <1>b DEF Requete
<1>3. r.op = op /\ r.lu = lu /\ r.ecrit = ecrit /\ r.porte = porte
    OBVIOUS
<1>4. RequeteOK(r)
    <2>1. op \notin {"register", "new"} => lu \in Compte /\ lu.id < seqCompte
        BY <1>0 DEF TypeOK, ComptesOK
    <2>2. op = "login" => \A c \in comptes : c.id = lu.id => c = lu
        BY <1>0 DEF ComptesOK
    <2> HIDE DEF r
    <2>3. op \notin {"register", "new"} =>
            \A k \in Colonne :
                r.ecrit[k] = IF r.porte[k] = Absent THEN r.lu[k] ELSE Porte(r, k)
        BY <1>3 DEF Colonne, Porte
    <2> QED
        BY <1>1, <1>3, <2>1, <2>2, <2>3 DEF RequeteOK
<1> HIDE DEF r
<1>5. TypeOK' /\ ComptesOK'
    BY <1>0, <1>1, <1>2 DEF TypeOK, ComptesOK
<1>6. ASSUME NEW v \in Workers PROVE RequeteOK(requetes[v])'
    <2>1. requetes'[v] = r \/ requetes'[v] = requetes[v]
        BY <1>0, <1>1 DEF TypeOK
    <2> QED
        BY <2>1, <1>0, <1>1, <1>4 DEF RequeteOK
<1> QED
    BY <1>5, <1>6 DEF Inv, InvComptes, ComptesOK, RequeteOK

\* Each of the six handlers starts with such a request.
LEMMA ReceptionInv ==
    ASSUME Inv, NEW w \in Workers,
           \/ Register(w) \/ Nouveau(w) \/ Editer(w) \/ UpdateMe(w)
           \/ Login(w) \/ Supprimer(w)
    PROVE  Inv'
<1>0. comptes \subseteq Compte
    BY DEF Inv, TypeOK
<1>r. Rien \in Saisie /\ Rien.email = Absent /\ Rien.password = Absent
      /\ Rien.coord = Absent
    BY DEF Rien, Saisie
<1>1. CASE Register(w) \/ Nouveau(w)
    <2>1. PICK e \in Emails \ {Vide}, p \in MotsDePasse, k \in Coordonnees,
               op \in {"register", "new"}, a \in BOOLEAN :
            Recevoir(w, op, "flush", Absent,
                     [id |-> 0, email |-> e, password |-> Hache(p),
                      coord |-> k], Rien, a)
        BY Zenon, <1>1 DEF Register, Nouveau
    <2>2. [id |-> 0, email |-> e, password |-> Hache(p), coord |-> k] \in Compte
        BY DEF Compte, Hache
    <2> QED
        BY <1>r, <2>1, <2>2, RecevoirInv
<1>2. CASE Editer(w)
    <2>1. PICK c \in comptes, e \in Emails \ {Vide},
               p \in MotsDePasse \cup {Absent}, k \in Coordonnees :
            Recevoir(w, "edit", "flush", c,
                     [c EXCEPT !.email = e, !.password = MotDePasseEdite(c, p),
                               !.coord = k],
                     [email |-> e, password |-> p, coord |-> k], TRUE)
        BY <1>2 DEF Editer
    <2> DEFINE h == MotDePasseEdite(c, p)
               n == [c EXCEPT !.email = e, !.password = h, !.coord = k]
               x == [email |-> e, password |-> p, coord |-> k]
    <2>2. h \in [hache : MotsDePasse]
        BY <1>0 DEF MotDePasseEdite, Hache, Compte
    <2>a. h = IF p = Absent THEN c.password ELSE Hache(p)
        BY DEF MotDePasseEdite
    <2> HIDE DEF h
    <2>3. /\ n \in Compte /\ n.id = c.id
          /\ n.email = e /\ n.password = h /\ n.coord = k
        BY Zenon, <1>0, <2>2 DEF Compte
    <2>b. x \in Saisie /\ x.email = e /\ x.password = p /\ x.coord = k
        BY DEF Saisie
    <2>c. e # Absent /\ k # Absent
        BY ComptesHypotheses
    <2> HIDE DEF n, x
    <2>4. Recevoir(w, "edit", "flush", c, n, x, TRUE)
        BY Zenon, <2>1 DEF n, h, x
    <2> QED
        BY Zenon, <1>0, <2>3, <2>4, <2>a, <2>b, <2>c, RecevoirInv
<1>3. CASE UpdateMe(w)
    <2>1. PICK c \in comptes, e \in Emails \cup {Absent},
               k \in Coordonnees \cup {Absent} :
            Recevoir(w, "updateMe",
                     IF e \in {Absent, c.email} THEN "flush" ELSE "email", c,
                     [c EXCEPT !.email = Sinon(e, c.email),
                               !.coord = Sinon(k, c.coord)],
                     [Rien EXCEPT !.email = e, !.coord = k], TRUE)
        BY Zenon, <1>3 DEF UpdateMe
    <2> DEFINE n == [c EXCEPT !.email = Sinon(e, c.email),
                              !.coord = Sinon(k, c.coord)]
               x == [Rien EXCEPT !.email = e, !.coord = k]
               pas == IF e \in {Absent, c.email} THEN "flush" ELSE "email"
    <2>2. Sinon(e, c.email) \in Emails /\ Sinon(k, c.coord) \in Coordonnees
        BY <1>0 DEF Sinon, Compte
    <2>3. /\ n \in Compte /\ n.id = c.id /\ n.password = c.password
          /\ n.email = Sinon(e, c.email) /\ n.coord = Sinon(k, c.coord)
        BY Zenon, <1>0, <2>2 DEF Compte
    <2>a. x \in Saisie /\ x.email = e /\ x.password = Absent /\ x.coord = k
        BY Zenon DEF Saisie, Rien
    <2>4. pas \in {"email", "flush"}
        OBVIOUS
    <2> HIDE DEF n, pas, x
    <2>5. Recevoir(w, "updateMe", pas, c, n, x, TRUE)
        BY Zenon, <2>1 DEF n, pas, x
    <2> QED
        BY Zenon, <1>0, <2>3, <2>4, <2>5, <2>a, RecevoirInv DEF Sinon
<1>4. CASE Login(w)
    <2>1. PICK c \in comptes, p \in MotsDePasse :
            /\ c.password = Hache(p)
            /\ Recevoir(w, "login", "flush", c, [c EXCEPT !.password = Hache(p)],
                        [Rien EXCEPT !.password = p], TRUE)
        BY Zenon, <1>4 DEF Login
    <2> DEFINE n == [c EXCEPT !.password = Hache(p)]
               x == [Rien EXCEPT !.password = p]
    <2>2. c \in Compte /\ n = c
        BY <1>0, <2>1 DEF Compte, Hache
    <2>a. x \in Saisie /\ x.email = Absent /\ x.password = p /\ x.coord = Absent
        BY DEF Saisie, Rien
    <2> HIDE DEF n, x
    <2>3. Recevoir(w, "login", "flush", c, n, x, TRUE)
        BY Zenon, <2>1 DEF n, x
    <2> QED
        BY Zenon, <1>0, <2>1, <2>2, <2>3, <2>a, RecevoirInv
<1>5. CASE Supprimer(w)
    BY Zenon, <1>0, <1>5, <1>r, RecevoirInv DEF Supprimer
<1> QED
    BY <1>1, <1>2, <1>3, <1>4, <1>5

\* The other requests go on, with what they carried, read and will write.
LEMMA AutresRequetes ==
    ASSUME TypeOK, NEW w \in Workers, NEW id, Fin(w) \/ FinEcrite(w, id),
           NEW v \in Workers
    PROVE  /\ requetes' \in [Workers -> Requete]
           /\ v = w => requetes'[v] = Repos
           /\ v # w => /\ requetes'[v].op = requetes[v].op
                       /\ requetes'[v].pas = requetes[v].pas
                       /\ requetes'[v].lu = requetes[v].lu
                       /\ requetes'[v].ecrit = requetes[v].ecrit
                       /\ requetes'[v].porte = requetes[v].porte
                       /\ requetes'[v].libre => requetes[v].libre /\ Fin(w)
                       /\ requetes'[v].seul => /\ requetes[v].seul
                                               /\ FinEcrite(w, id) =>
                                                        requetes[v].lu.id # id
<1>1. CASE Fin(w) /\ ~FinEcrite(w, id)
    BY <1>1, ReposType DEF Fin, TypeOK
<1>2. CASE FinEcrite(w, id)
    <2>1. ASSUME NEW u \in Workers, u # w
          PROVE  /\ requetes'[u] \in Requete
                 /\ requetes'[u].op = requetes[u].op
                 /\ requetes'[u].pas = requetes[u].pas
                 /\ requetes'[u].lu = requetes[u].lu
                 /\ requetes'[u].ecrit = requetes[u].ecrit
                 /\ requetes'[u].porte = requetes[u].porte
                 /\ requetes'[u].libre = FALSE
                 /\ requetes'[u].seul =>
                        requetes[u].seul /\ requetes[u].lu.id # id
        <3> DEFINE b == requetes[u].seul /\ requetes[u].lu.id # id
        <3>1. requetes[u] \in Requete /\ b \in BOOLEAN
            BY DEF TypeOK
        <3>2. requetes'[u] = [requetes[u] EXCEPT !.libre = FALSE, !.seul = b]
            BY Zenon, <1>2, <2>1 DEF FinEcrite
        <3>3. requetes'[u].seul = b
            BY <3>1, <3>2 DEF Requete
        <3> HIDE DEF b
        <3>4. /\ requetes'[u] \in Requete
              /\ requetes'[u].op = requetes[u].op
              /\ requetes'[u].pas = requetes[u].pas
              /\ requetes'[u].lu = requetes[u].lu
              /\ requetes'[u].ecrit = requetes[u].ecrit
              /\ requetes'[u].porte = requetes[u].porte
              /\ requetes'[u].libre = FALSE
            BY Zenon, <3>1, <3>2 DEF Requete
        <3> QED
            BY Zenon, <3>3, <3>4 DEF b
    <2>2. requetes'[w] = Repos /\ DOMAIN requetes' = Workers
        BY Zenon, <1>2 DEF FinEcrite
    <2>3. requetes' \in [Workers -> Requete]
        BY Zenon, <1>2, <2>1, <2>2, ReposType DEF FinEcrite
    <2> QED
        BY Zenon, <2>1, <2>2, <2>3
<1> QED
    BY <1>1, <1>2

\* A request that ends leaves the others as they were; ids only grow, and no
\* account is written but the one named.
LEMMA FinInv ==
    ASSUME Inv, NEW w \in Workers, NEW id,
           (Fin(w) /\ comptes' = comptes) \/ FinEcrite(w, id),
           (comptes \subseteq Compte)', ComptesOK', seqCompte' \in Nat,
           seqCompte' >= seqCompte,
           \A d \in comptes' : d.id # id => d \in comptes
    PROVE  Inv'
<1>0. TypeOK /\ \A v \in Workers : RequeteOK(requetes[v])
    BY InvEnParties
<1>1. TypeOK'
    BY <1>0, AutresRequetes DEF TypeOK
<1>2. ASSUME NEW v \in Workers PROVE RequeteOK(requetes[v])'
    <2>1. CASE v = w
        <3>1. requetes'[v] = Repos
            BY <1>0, <2>1, AutresRequetes
        <3> QED
            BY <3>1 DEF RequeteOK, Repos
    <2>2. CASE v # w
        <3>1. /\ requetes'[v].op = requetes[v].op
              /\ requetes'[v].lu = requetes[v].lu
              /\ requetes'[v].ecrit = requetes[v].ecrit
              /\ requetes'[v].porte = requetes[v].porte
            BY <1>0, <2>2, AutresRequetes
        <3>2. requetes[v].op \in {"updateMe", "edit", "login", "delete"}
                => requetes[v].lu.id \in Nat /\ requetes[v].lu.id < seqCompte'
            BY <1>0 DEF RequeteOK, TypeOK, Compte
        <3>3. ASSUME requetes'[v].seul
              PROVE  /\ requetes[v].seul
                     /\ \A d \in comptes' : d.id = requetes[v].lu.id => d \in comptes
            <4>1. CASE Fin(w) /\ comptes' = comptes
                BY <1>0, <2>2, <3>3, <4>1, AutresRequetes
            <4>2. CASE FinEcrite(w, id)
                <5>1. requetes[v].seul /\ requetes[v].lu.id # id
                    BY <1>0, <2>2, <3>3, <4>2, AutresRequetes
                <5> QED
                    BY <5>1
            <4> QED
                BY <4>1, <4>2
        <3>4. RequeteOK(requetes[v])
            BY <1>0
        <3> QED
            BY <3>1, <3>2, <3>3, <3>4 DEF RequeteOK, Porte
    <2> QED
        BY <2>1, <2>2
<1> QED
    BY <1>1, <1>2 DEF Inv, InvComptes, ComptesOK, RequeteOK, Porte

\* VerifierEmail: 409, or on to the flush.
LEMMA VerifierEmailInv ==
    ASSUME Inv, NEW w \in Workers, VerifierEmail(w) PROVE Inv'
<1>0. TypeOK /\ ComptesOK /\ \A v \in Workers : RequeteOK(requetes[v])
    BY InvEnParties
<1>1. UNCHANGED <<comptes, seqCompte>>
    BY DEF VerifierEmail
<1>2. CASE Fin(w)
    BY <1>0, <1>1, <1>2, FinInv DEF TypeOK, ComptesOK
<1>3. CASE requetes' = [requetes EXCEPT ![w].pas = "flush", ![w].libre = TRUE]
    <2>0. /\ requetes'[w] = [requetes[w] EXCEPT !.pas = "flush", !.libre = TRUE]
          /\ \A v \in Workers \ {w} : requetes'[v] = requetes[v]
          /\ requetes' = [v \in Workers |-> requetes'[v]]
        BY Zenon, <1>0, <1>3 DEF TypeOK
    <2>1. TypeOK'
        <3>1. requetes'[w] \in Requete
            BY Zenon, <1>0, <2>0 DEF TypeOK, Requete
        <3>2. requetes' \in [Workers -> Requete]
            BY <1>0, <2>0, <3>1 DEF TypeOK
        <3> QED
            BY <1>0, <1>1, <3>2 DEF TypeOK
    <2>2. ASSUME NEW v \in Workers PROVE RequeteOK(requetes[v])'
        <3>1. /\ requetes'[v].op = requetes[v].op
              /\ requetes'[v].lu = requetes[v].lu
              /\ requetes'[v].ecrit = requetes[v].ecrit
              /\ requetes'[v].porte = requetes[v].porte
              /\ requetes'[v].seul = requetes[v].seul
            BY <1>0, <1>3 DEF TypeOK, Requete
        <3> QED
            BY <1>0, <1>1, <3>1 DEF RequeteOK, Porte
    <2> QED
        BY <1>0, <1>1, <2>1, <2>2 DEF Inv, InvComptes, ComptesOK, RequeteOK, Porte
<1> QED
    BY <1>2, <1>3 DEF VerifierEmail

\* The row an insertion adds.
LEMMA InseresType ==
    ASSUME Inv, NEW w \in Workers, FlushInsertion(w)
    PROVE  \E n \in Compte : n.id = seqCompte /\ comptes' = comptes \cup {n}
<1>1. requetes[w].ecrit \in Compte /\ seqCompte \in Nat
    BY DEF Inv, TypeOK, InvComptes, FlushInsertion
<1>2. /\ [requetes[w].ecrit EXCEPT !.id = seqCompte] \in Compte
      /\ [requetes[w].ecrit EXCEPT !.id = seqCompte].id = seqCompte
    BY <1>1 DEF Compte
<1> QED
    BY Zenon, <1>2 DEF FlushInsertion, Inseres

\* FlushInsertion: a new account has a new id.
LEMMA FlushInsertionInv ==
    ASSUME Inv, NEW w \in Workers, FlushInsertion(w) PROVE Inv'
<1>0. TypeOK /\ ComptesOK
    BY InvEnParties
<1>1. PICK n \in Compte : n.id = seqCompte /\ comptes' = comptes \cup {n}
    BY InseresType
<1>2. seqCompte' = seqCompte + 1 /\ FinEcrite(w, seqCompte)
    BY DEF FlushInsertion
<1>3. \A c \in comptes : c.id \in Nat /\ c.id # seqCompte /\ c.id < seqCompte + 1
    BY <1>0 DEF ComptesOK, TypeOK, Compte
<1>4. ComptesOK'
    BY <1>0, <1>1, <1>2, <1>3 DEF ComptesOK, TypeOK
<1> QED
    BY <1>0, <1>1, <1>2, <1>4, FinInv DEF TypeOK

\* What an UPDATE makes of a row: the changed columns, and no other.
LEMMA LigneEcrite ==
    ASSUME Inv, NEW w \in Workers, FlushMiseAJour(w), NEW c \in comptes
    PROVE  /\ EcritLigne(requetes[w], c) \in Compte
           /\ EcritLigne(requetes[w], c).id = c.id
           /\ \A k \in Colonne :
                EcritLigne(requetes[w], c)[k] =
                    IF Change(requetes[w], k) THEN requetes[w].ecrit[k] ELSE c[k]
<1>1. requetes[w].ecrit \in Compte /\ c \in Compte
    BY DEF Inv, TypeOK, InvComptes, FlushMiseAJour
<1>2. \A k \in Colonne : Change(requetes[w], k) \in BOOLEAN
    BY DEF Change
<1> HIDE DEF Change
<1> QED
    BY Zenon, <1>1, <1>2 DEF EcritLigne, Compte, Colonne

\* FlushMiseAJour: an UPDATE keeps the ids.
LEMMA FlushMiseAJourInv ==
    ASSUME Inv, NEW w \in Workers, FlushMiseAJour(w) PROVE Inv'
<1> DEFINE g(c) == IF c.id = requetes[w].lu.id THEN EcritLigne(requetes[w], c)
                                               ELSE c
<1>0. TypeOK /\ ComptesOK
    BY InvEnParties
<1>1. comptes' = {g(c) : c \in comptes} /\ seqCompte' = seqCompte
      /\ FinEcrite(w, requetes[w].lu.id)
    BY DEF FlushMiseAJour, MisAJour
<1>2. \A c \in comptes : g(c) \in Compte /\ g(c).id = c.id
    BY <1>0, LigneEcrite DEF TypeOK
<1>4. \A c \in comptes : c.id # requetes[w].lu.id => g(c) = c
    OBVIOUS
<1> HIDE DEF g
<1>3. ComptesOK' /\ (comptes \subseteq Compte)'
    BY <1>0, <1>1, <1>2 DEF ComptesOK
<1>5. \A d \in comptes' : d.id # requetes[w].lu.id => d \in comptes
    BY <1>1, <1>2, <1>4
<1> QED
    BY <1>0, <1>1, <1>3, <1>5, FinInv DEF TypeOK

\* FlushSuppression and Echec: an account less, or none.
LEMMA SuppressionInv ==
    ASSUME Inv, NEW w \in Workers, FlushSuppression(w) \/ Echec(w) PROVE Inv'
<1>0. TypeOK /\ ComptesOK
    BY InvEnParties
<1>1. comptes' \subseteq comptes /\ seqCompte' = seqCompte
      /\ ((Fin(w) /\ comptes' = comptes) \/ FinEcrite(w, requetes[w].lu.id))
    BY DEF FlushSuppression, Echec
<1> QED
    BY <1>0, <1>1, FinInv DEF TypeOK, ComptesOK

\* Every step keeps the invariant.
LEMMA NextInv == Inv /\ [Next]_vars => Inv'
<1> SUFFICES ASSUME Inv, [Next]_vars PROVE Inv'
    OBVIOUS
<1>1. CASE Next
    BY <1>1, ReceptionInv, VerifierEmailInv, FlushInsertionInv,
       FlushMiseAJourInv, SuppressionInv DEF Next
<1>2. CASE UNCHANGED vars
    BY <1>2 DEF vars, Inv, TypeOK, InvComptes, Porte
<1> QED
    BY <1>1, <1>2

\* Types, and ids that stand for one account each, in every reachable state
\* (every handler that writes table utilisateur).
THEOREM InvariantDesComptes == Spec => []Inv
BY InitInv, NextInv, PTL DEF Spec

-----------------------------------------------------------------------------
(* What a step writes. *)

\* Only three steps write the table, and two of them are under the index.
LEMMA Ecritures ==
    ASSUME Inv, [Next]_vars
    PROVE  \/ comptes' \subseteq comptes
           \/ \E w \in Workers : FlushInsertion(w) /\ IndexUnique(comptes')
           \/ \E w \in Workers : FlushMiseAJour(w) /\ IndexUnique(comptes')
<1>1. ASSUME NEW w \in Workers,
             \/ Register(w) \/ Nouveau(w) \/ Editer(w) \/ UpdateMe(w)
             \/ Login(w) \/ Supprimer(w) \/ VerifierEmail(w)
             \/ FlushSuppression(w) \/ Echec(w)
      PROVE  comptes' \subseteq comptes
    BY <1>1 DEF Register, Nouveau, Editer, UpdateMe, Login, Supprimer, Recevoir,
                VerifierEmail, FlushSuppression, Echec
<1>2. ASSUME NEW w \in Workers, FlushInsertion(w) PROVE IndexUnique(comptes')
    BY <1>2 DEF FlushInsertion, AccepteInsertion
<1>3. ASSUME NEW w \in Workers, FlushMiseAJour(w) PROVE IndexUnique(comptes')
    BY <1>3 DEF FlushMiseAJour
<1> QED
    BY <1>1, <1>2, <1>3 DEF Next, vars

\* Accounts have distinct addresses, up to case (UNIQ_IDENTIFIER_EMAIL).
EmailsDistincts == \A c, d \in comptes : c.id # d.id => Pli[c.email] # Pli[d.email]

\* The index sees to it, whichever handler writes.
LEMMA AdressesDistinctes == Spec => []EmailsDistincts
<1>1. Init => EmailsDistincts
    BY DEF Init, EmailsDistincts
<1>2. Inv /\ EmailsDistincts /\ [Next]_vars => EmailsDistincts'
    BY Ecritures DEF EmailsDistincts, IndexUnique
<1> QED
    BY <1>1, <1>2, InvariantDesComptes, PTL DEF Spec

\* One step.
LEMMA EtapeModif ==
    ASSUME Inv, [Next]_vars PROVE ModifVoulue
<1> SUFFICES ASSUME NEW c \in comptes, NEW d \in comptes', NEW k \in Colonne,
                    d.id = c.id, d[k] # c[k]
             PROVE  \E w \in Workers :
                        /\ requetes[w].op \in {"updateMe", "edit", "login"}
                        /\ requetes[w].lu.id = c.id
                        /\ requetes[w].porte[k] # Absent
                        /\ d[k] = Porte(requetes[w], k)
                        /\ requetes[w].op = "login" => ~requetes[w].seul
    BY DEF ModifVoulue
<1>0. TypeOK /\ ComptesOK
    BY InvEnParties
<1>1. d \notin comptes
    BY <1>0 DEF ComptesOK
<1>2. ASSUME NEW w \in Workers, FlushInsertion(w) PROVE FALSE
    BY <1>0, <1>1, <1>2, InseresType DEF ComptesOK, TypeOK, Compte
<1>3. PICK w \in Workers : FlushMiseAJour(w)
    BY <1>1, <1>2, Ecritures
<1> DEFINE r == requetes[w]
<1>4. /\ r.op \in {"updateMe", "edit", "login"}
      /\ r.op = "login" => r.ecrit = r.lu
      /\ r.ecrit[k] = IF r.porte[k] = Absent THEN r.lu[k] ELSE Porte(r, k)
      /\ r.op = "login" /\ r.seul => (c.id = r.lu.id => c.password = r.lu.password)
    <2>1. RequeteOK(r) /\ r.op \in {"updateMe", "edit", "login"}
        BY <1>3, InvEnParties DEF FlushMiseAJour
    <2> QED
        BY <2>1 DEF RequeteOK
<1>5. PICK x \in comptes : d = IF x.id = r.lu.id THEN EcritLigne(r, x) ELSE x
    BY <1>3 DEF FlushMiseAJour, MisAJour
<1>6. d = EcritLigne(r, x) /\ x.id = r.lu.id
    BY <1>1, <1>5
<1>7. x = c
    BY <1>0, <1>3, <1>6, LigneEcrite DEF ComptesOK
<1>8. Change(r, k) /\ d[k] = r.ecrit[k]
    BY <1>3, <1>6, <1>7, LigneEcrite
<1>9. r.porte[k] # Absent
    BY <1>4, <1>8 DEF Change
<1>10. r.op = "login" => ~r.seul
    <2> SUFFICES ASSUME r.op = "login", r.seul PROVE FALSE
        OBVIOUS
    <2>1. r.ecrit = r.lu /\ c.password = r.lu.password
        BY <1>4, <1>6, <1>7
    <2>2. k = "password"
        BY <1>8, <2>1 DEF Change
    <2> QED
        BY <1>8, <2>1, <2>2
<1> HIDE DEF r
<1>11. r.lu.id = c.id /\ d[k] = Porte(r, k)
    BY <1>4, <1>6, <1>7, <1>8, <1>9
<1> QED
    BY <1>4, <1>9, <1>10, <1>11 DEF r

\* A column of an account changes only because a request on the account carried
\* another value for it, to that value, and a login changes the password only when
\* the account was written between its test and its flush: what a key or a field
\* does not say is never overwritten, whatever was saved meanwhile (updateMe,
\* updateEntity, upgradePassword, Doctrine's change set).
THEOREM RienNEstEcrase == Spec => RienNEstPerdu
<1>1. Inv /\ [Next]_vars => [ModifVoulue]_vars
    BY EtapeModif
<1> QED
    BY <1>1, InvariantDesComptes, PTL DEF Spec, RienNEstPerdu

-----------------------------------------------------------------------------
(* The test of updateMe. *)

\* Once the test has passed, and until somebody writes, no account has the address.
AdresseLibre == \A w \in Workers :
    requetes[w].libre =>
        \A c \in comptes : Pli[c.email] # Pli[requetes[w].ecrit.email]

\* A step either leaves the accounts alone, or ends a request that has written.
LEMMA EtapeAdresse == Inv /\ AdresseLibre /\ [Next]_vars => AdresseLibre'
<1> SUFFICES ASSUME Inv, AdresseLibre, [Next]_vars, NEW v \in Workers,
                    requetes'[v].libre
             PROVE  \A c \in comptes' : Pli[c.email] # Pli[requetes'[v].ecrit.email]
    BY DEF AdresseLibre
<1>0. TypeOK
    BY DEF Inv
<1>1. ASSUME NEW w \in Workers, NEW op, NEW pas, NEW lu, NEW ecrit, NEW porte,
             NEW a, Recevoir(w, op, pas, lu, ecrit, porte, a)
      PROVE  requetes'[v] = requetes[v] /\ comptes' = comptes
    <2>1. /\ comptes' = comptes
          /\ requetes' = [requetes EXCEPT ![w] =
                [op |-> op, pas |-> pas, lu |-> lu, ecrit |-> ecrit,
                 porte |-> porte, adhesion |-> a, libre |-> FALSE,
                 seul |-> op = "login"]]
        BY <1>1 DEF Recevoir
    <2> QED
        BY <1>0, <2>1 DEF TypeOK
<1>2. ASSUME NEW w \in Workers,
             \/ Register(w) \/ Nouveau(w) \/ Editer(w) \/ UpdateMe(w)
             \/ Login(w) \/ Supprimer(w)
      PROVE  requetes'[v] = requetes[v] /\ comptes' = comptes
    BY Zenon, <1>1, <1>2 DEF Register, Nouveau, Editer, UpdateMe, Login, Supprimer
<1>3. ASSUME NEW w \in Workers, NEW id, Fin(w) \/ FinEcrite(w, id)
      PROVE  /\ Fin(w) /\ requetes[v].libre
             /\ requetes'[v].ecrit = requetes[v].ecrit
    BY <1>0, <1>3, AutresRequetes DEF Repos
<1>4. ASSUME NEW w \in Workers, VerifierEmail(w), ~Fin(w)
      PROVE  \A c \in comptes' : Pli[c.email] # Pli[requetes'[v].ecrit.email]
    <2>1. /\ requetes' = [requetes EXCEPT ![w].pas = "flush", ![w].libre = TRUE]
          /\ requetes[w].pas = "email" /\ comptes' = comptes
          /\ Trouve(requetes[w].ecrit.email) = {}
        BY <1>4 DEF VerifierEmail
    <2>2. CASE v = w
        <3>1. requetes'[v].ecrit = requetes[v].ecrit
            BY <1>0, <2>1 DEF TypeOK, Requete
        <3> QED
            BY <2>1, <2>2, <3>1 DEF Trouve
    <2>3. CASE v # w
        BY <1>0, <2>1, <2>3 DEF TypeOK, AdresseLibre
    <2> QED
        BY <2>2, <2>3
<1>5. ASSUME NEW w \in Workers,
             (VerifierEmail(w) /\ Fin(w)) \/ Echec(w)
      PROVE  comptes' = comptes /\ Fin(w)
    BY <1>5 DEF VerifierEmail, Echec
<1>6. ASSUME NEW w \in Workers,
             FlushInsertion(w) \/ FlushMiseAJour(w) \/ FlushSuppression(w)
      PROVE  \E id : FinEcrite(w, id)
    BY <1>6 DEF FlushInsertion, FlushMiseAJour, FlushSuppression
<1>7. ASSUME NEW w \in Workers, NEW id, FinEcrite(w, id) PROVE FALSE
    <2>1. CASE v = w
        BY <1>7, <2>1 DEF FinEcrite, Repos
    <2>2. CASE v # w
        <3>1. requetes'[v] = [requetes[v] EXCEPT !.libre = FALSE,
                    !.seul = requetes[v].seul /\ requetes[v].lu.id # id]
            BY Zenon, <1>7, <2>2 DEF FinEcrite
        <3> QED
            BY <1>0, <3>1 DEF TypeOK, Requete
    <2> QED
        BY <2>1, <2>2
<1>8. CASE UNCHANGED vars
    BY <1>8 DEF vars, AdresseLibre
<1> QED
    BY <1>2, <1>3, <1>4, <1>5, <1>6, <1>7, <1>8 DEF Next, AdresseLibre

\* An address that nobody has, or that is not written, is one the index accepts.
LEMMA AdresseAcceptee ==
    ASSUME Inv, EmailsDistincts, AdresseLibre, NEW w \in Workers,
           requetes[w].op = "updateMe", requetes[w].pas = "flush",
           requetes[w].libre \/ ~Change(requetes[w], "email")
    PROVE  IndexUnique(MisAJour(requetes[w]))
<1> DEFINE r == requetes[w]
           g(c) == IF c.id = r.lu.id THEN EcritLigne(r, c) ELSE c
<1>0. r.ecrit \in Compte /\ comptes \subseteq Compte
    BY DEF Inv, TypeOK, InvComptes
<1>1. ASSUME NEW c \in comptes
      PROVE  /\ g(c).id = c.id
             /\ \/ g(c).email = c.email
                \/ /\ g(c).email = r.ecrit.email /\ c.id = r.lu.id
                   /\ Change(r, "email")
    <2>1. c \in Compte /\ Change(r, "email") \in BOOLEAN
        BY <1>0 DEF Change
    <2> HIDE DEF Change
    <2> QED
        BY <1>0, <2>1 DEF EcritLigne, Compte
<1>2. Change(r, "email") =>
        \A c \in comptes : Pli[c.email] # Pli[r.ecrit.email]
    BY DEF AdresseLibre
<1> HIDE DEF r
<1>3. \A c, d \in comptes : Pli[g(c).email] = Pli[g(d).email] => c.id = d.id
    <2> HIDE DEF g
    <2> SUFFICES ASSUME NEW c \in comptes, NEW d \in comptes,
                        Pli[g(c).email] = Pli[g(d).email]
                 PROVE  c.id = d.id
        OBVIOUS
    <2> QED
        BY <1>1, <1>2 DEF EmailsDistincts
<1>4. MisAJour(r) = {g(c) : c \in comptes}
    BY DEF MisAJour
<1> HIDE DEF g
<1> QED
    BY <1>1, <1>3, <1>4 DEF IndexUnique, r

\* A change of address that updateMe let through is refused by the unique index
\* only when another request wrote the accounts after its test (findOneBy and
\* UNIQ_IDENTIFIER_EMAIL agree).
THEOREM TestSuffisant == Spec => []SansCollision
<1>1. Init => AdresseLibre
    BY DEF Init, AdresseLibre, Repos
<1>2. Spec => []AdresseLibre
    BY <1>1, InvariantDesComptes, EtapeAdresse, PTL DEF Spec
<1>3. Inv /\ EmailsDistincts /\ AdresseLibre => SansCollision
    BY AdresseAcceptee DEF SansCollision
<1> QED
    BY <1>2, <1>3, InvariantDesComptes, AdressesDistinctes, PTL
=============================================================================
