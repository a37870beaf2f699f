------------------------- MODULE SessionAuth_proofs -------------------------
(***************************************************************************)
(* Proofs about SessionAuth, for any accounts, any number of tokens and    *)
(* anything the person does.                                               *)
(***************************************************************************)
EXTENDS SessionAuth, TLAPS

\* A new token keeps the ones there are.
LEMMA JetonAjoute ==
    ASSUME jetons \in Seq(Comptes), NEW c \in Comptes,
           jetons' = Append(jetons, c)
    PROVE  /\ (jetons \in Seq(Comptes))' /\ Len(jetons)' = Len(jetons) + 1
           /\ Len(jetons) \in Nat /\ jetons'[Len(jetons) + 1] = c
           /\ \A j \in 1 .. Len(jetons) : jetons'[j] = jetons[j]
           /\ 0 .. Len(jetons) \subseteq 0 .. Len(jetons')
           /\ Lieux \subseteq Lieux' /\ Envois \subseteq Envois'
<1>1. (jetons \in Seq(Comptes))' /\ Len(jetons)' = Len(jetons) + 1
      /\ Len(jetons) \in Nat
    OBVIOUS
<1>2. jetons'[Len(jetons) + 1] = c
      /\ \A j \in 1 .. Len(jetons) : jetons'[j] = jetons[j]
    OBVIOUS
<1>3. 0 .. Len(jetons) \subseteq 0 .. Len(jetons')
    BY <1>1
<1>4. Lieux \subseteq Lieux' /\ Envois \subseteq Envois'
    BY <1>3 DEF Lieux, Envois
<1> QED
    BY <1>1, <1>2, <1>3, <1>4

\* The invariant holds at first.
LEMMA InitInv == Init => Inv
<1> SUFFICES ASSUME Init PROVE Inv
    OBVIOUS
<1>1. jetons \in Seq(Comptes) /\ Len(jetons) = 0
    BY DEF Init
<1>2. NullePart \in Lieux
    BY <1>1 DEF NullePart, Lieu, Lieux, Urls
<1>3. TypeOK
    BY <1>1, <1>2 DEF Init, TypeOK, Pages
<1> QED
    BY <1>3 DEF Init, Inv, InvJetons, NullePart, Lieu

\* A destination has the type it must have.
LEMMA LieuType ==
    ASSUME NEW u \in Urls, NEW j \in 0 .. Len(jetons)
    PROVE  Lieu(u, j) \in Lieux /\ Lieu(u, j).url = u /\ Lieu(u, j).jeton = j
BY DEF Lieu, Lieux

\* So has a request.
LEMMA RequeteType ==
    ASSUME NEW ty \in {"me", "login", "autre"}, NEW j \in 0 .. Len(jetons),
           NEW c \in Comptes \cup {Nul}
    PROVE  /\ Requete(ty, j, c) \in Envois
           /\ Requete(ty, j, c).type = ty /\ Requete(ty, j, c).jeton = j
           /\ Requete(ty, j, c).compte = c /\ Requete(ty, j, c).etat = "partie"
BY DEF Requete, Envois

\* What InvJetons says of a request, and of a tab.
RequeteOK(q) ==
    /\ q.type = "me" => q.jeton # 0
    /\ q.type = "login" => q.compte \in Comptes /\ (q.etat = "ok" => q.jeton # 0)

OngletOK(t) ==
    /\ destination[t].url \in {"to-symfony", "front?token"}
           => destination[t].jeton # 0
    /\ \A q \in enVol[t] : page[t] = "front" /\ RequeteOK(q)

\* A step of one tab has only that tab to account for.
LEMMA UnOnglet ==
    ASSUME Inv, TypeOK', NEW t \in Onglets, OngletOK(t)',
           \A s \in Onglets \ {t} : /\ page'[s] = page[s]
                                    /\ destination'[s] = destination[s]
                                    /\ enVol'[s] = enVol[s]
    PROVE  Inv'
<1>1. ASSUME NEW s \in Onglets PROVE OngletOK(s)'
    <2>1. OngletOK(s)
        BY DEF Inv, InvJetons, OngletOK, RequeteOK
    <2> QED
        BY <2>1 DEF OngletOK
<1> QED
    BY <1>1 DEF Inv, InvJetons, OngletOK, RequeteOK

\* A redirection: the tab leaves its page for another place.
LEMMA QuitterInv ==
    ASSUME Inv, NEW t \in Onglets, NEW p \in Pages, Quitter(t, p),
           NEW l, l \in Lieux', Aller(t, l),
           l.url \in {"to-symfony", "front?token"} => l.jeton # 0,
           \/ jetons' = jetons
           \/ \E c \in Comptes : jetons' = Append(jetons, c),
           expires' = expires, session' \in Comptes \cup {Nul}
    PROVE  Inv'
<1>1. /\ (jetons \in Seq(Comptes))'
      /\ 0 .. Len(jetons) \subseteq 0 .. Len(jetons')
      /\ 1 .. Len(jetons) \subseteq 1 .. Len(jetons')
      /\ Lieux \subseteq Lieux' /\ Envois \subseteq Envois'
    <2>1. CASE jetons' = jetons
        BY <2>1 DEF Inv, TypeOK, Lieux, Envois
    <2>2. ASSUME NEW c \in Comptes, jetons' = Append(jetons, c)
          PROVE  /\ (jetons \in Seq(Comptes))'
                 /\ 0 .. Len(jetons) \subseteq 0 .. Len(jetons')
                 /\ 1 .. Len(jetons) \subseteq 1 .. Len(jetons')
                 /\ Lieux \subseteq Lieux' /\ Envois \subseteq Envois'
        BY <2>2, JetonAjoute DEF Inv, TypeOK
    <2> QED
        BY <2>1, <2>2
<1>2. /\ page' = [page EXCEPT ![t] = p] /\ enVol' = [enVol EXCEPT ![t] = {}]
      /\ destination' = [destination EXCEPT ![t] = l]
      /\ UNCHANGED <<jeton, isLoggedIn, userEmail, userRoles, gestes>>
    BY DEF Quitter, Aller, signaux
<1>3. TypeOK'
    BY <1>1, <1>2 DEF Inv, TypeOK
<1>4. OngletOK(t)'
    BY <1>2 DEF OngletOK, Inv, TypeOK
<1> QED
    BY <1>2, <1>3, <1>4, UnOnglet DEF Inv, TypeOK

\* Symfony's four redirections.
LEMMA SymfonyInv ==
    ASSUME Inv, NEW t \in Onglets,
           ToSymfony(t) \/ ToAngular(t) \/ Logout(t) \/ Admin(t)
    PROVE  Inv'
<1>0. /\ jetons \in Seq(Comptes) /\ Len(jetons) \in Nat
      /\ session \in Comptes \cup {Nul}
    BY DEF Inv, TypeOK
<1>1. \A u \in Urls : /\ Lieu(u, 0) \in Lieux /\ Lieu(u, 0).url = u
                      /\ Lieu(u, 0).jeton = 0
    BY <1>0, LieuType
<1>2. {"nulle part", "front", "front?action=logout", "to-angular", "admin"}
        \subseteq Urls
    BY DEF Urls
<1>3. jetons' = jetons => Lieux' = Lieux
    BY DEF Lieux
<1>4. CASE ToSymfony(t)
    <2> DEFINE d == destination[t]
    <2>1. jetons' = jetons /\ expires' = expires
        BY <1>4 DEF ToSymfony
    <2>2. CASE Valide(d.jeton)
        <3>1. jetons[d.jeton] \in Comptes
            BY <1>0, <2>2 DEF Valide
        <3>2. session' = jetons[d.jeton] /\ Quitter(t, "redirection")
              /\ (Aller(t, Lieu("admin", 0)) \/ Aller(t, Lieu("front", 0)))
            BY <1>4, <2>2 DEF ToSymfony, SessionOuverte
        <3> QED
            BY <1>1, <1>2, <1>3, <2>1, <3>1, <3>2, QuitterInv DEF Pages
    <2>3. CASE ~Valide(d.jeton)
        <3>1. session' = session /\ Quitter(t, "erreur")
              /\ Aller(t, Lieu("nulle part", 0))
            BY <1>4, <2>3 DEF ToSymfony, NullePart
        <3> QED
            BY <1>0, <1>1, <1>2, <1>3, <2>1, <3>1, QuitterInv DEF Pages
    <2> QED
        BY <2>2, <2>3
<1>5. CASE ToAngular(t)
    <2>1. expires' = expires /\ session' = session /\ Quitter(t, "redirection")
        BY <1>5 DEF ToAngular
    <2>2. CASE session # Nul
        <3>1. jetons' = Append(jetons, session) /\ session \in Comptes
              /\ Aller(t, Lieu("front?token", Len(jetons) + 1))
            BY <1>0, <1>5, <2>2 DEF ToAngular
        <3>2. Len(jetons') = Len(jetons) + 1
            BY <1>0, <3>1, JetonAjoute
        <3> DEFINE l == Lieu("front?token", Len(jetons) + 1)
        <3>3. l \in Lieux' /\ l.jeton # 0
            BY <1>0, <3>2 DEF Lieu, Lieux, Urls
        <3> HIDE DEF l
        <3>4. Aller(t, l)
            BY <3>1 DEF l
        <3> QED
            BY <1>0, <2>1, <3>1, <3>3, <3>4, QuitterInv DEF Pages
    <2>3. CASE session = Nul
        <3>1. jetons' = jetons /\ Aller(t, Lieu("front", 0))
            BY <1>5, <2>3 DEF ToAngular
        <3> QED
            BY <1>0, <1>1, <1>2, <1>3, <2>1, <3>1, QuitterInv DEF Pages
    <2> QED
        BY <2>2, <2>3
<1>6. CASE Logout(t)
    <2>1. jetons' = jetons /\ expires' = expires /\ session' = Nul
          /\ Quitter(t, "redirection") /\ Aller(t, Lieu("front?action=logout", 0))
        BY <1>6 DEF Logout, FinSession
    <2> QED
        BY <1>0, <1>1, <1>2, <1>3, <2>1, QuitterInv DEF Pages
<1>7. CASE Admin(t)
    <2>1. jetons' = jetons /\ expires' = expires /\ session' = session
        BY <1>7 DEF Admin, serveur
    <2>2. \E p \in Pages, u \in {"nulle part", "to-angular"} :
            Quitter(t, p) /\ Aller(t, Lieu(u, 0))
        BY <1>7 DEF Admin, NullePart, Pages
    <2> QED
        BY <1>0, <1>1, <1>2, <1>3, <2>1, <2>2, QuitterInv
<1> QED
    BY <1>4, <1>5, <1>6, <1>7

\* A step of a front page: its requests become S, and it may be going elsewhere.
LEMMA FrontInv ==
    ASSUME Inv, NEW t \in Onglets, NEW S, enVol' = [enVol EXCEPT ![t] = S],
           (jetons \in Seq(Comptes))', Lieux \subseteq Lieux',
           Envois \subseteq Envois',
           1 .. Len(jetons) \subseteq 1 .. Len(jetons'),
           expires' \subseteq 1 .. Len(jetons'), jeton' \in 0 .. Len(jetons'),
           session' \in Comptes \cup {Nul}, page' \in [Onglets -> Pages],
           \A s \in Onglets \ {t} : page'[s] = page[s],
           page'[t] = "front", gestes' \in Nat,
           isLoggedIn' \in [Onglets -> BOOLEAN],
           userEmail' \in [Onglets -> Comptes \cup {Nul}],
           userRoles' \in [Onglets -> Comptes \cup {Nul}],
           \/ UNCHANGED destination
           \/ \E l \in Lieux' :
                /\ Aller(t, l)
                /\ l.url \in {"to-symfony", "front?token"} => l.jeton # 0,
           S \subseteq Envois', \A q \in S : RequeteOK(q)
    PROVE  Inv'
<1>0. TypeOK /\ OngletOK(t)
    BY DEF Inv, InvJetons, OngletOK, RequeteOK
<1>1. /\ (destination \in [Onglets -> Lieux])'
      /\ \A s \in Onglets \ {t} : destination'[s] = destination[s]
      /\ (destination'[t].url \in {"to-symfony", "front?token"}
             => destination'[t].jeton # 0)
    BY <1>0 DEF TypeOK, Aller, OngletOK
<1>2. /\ enVol' \in [Onglets -> SUBSET (Envois')] /\ enVol'[t] = S
      /\ \A s \in Onglets \ {t} : enVol'[s] = enVol[s]
    BY <1>0 DEF TypeOK
<1>3. TypeOK'
    BY <1>1, <1>2 DEF TypeOK
<1>4. OngletOK(t)'
    <2>1. \A q \in enVol'[t] : page'[t] = "front" /\ RequeteOK(q)
        BY <1>2
    <2>2. (\A q \in enVol[t] : page[t] = "front" /\ RequeteOK(q))'
        BY <2>1 DEF RequeteOK
    <2> QED
        BY <1>1, <2>2 DEF OngletOK
<1> QED
    BY <1>1, <1>2, <1>3, <1>4, UnOnglet

\* The server's answers.
LEMMA ServeurInv ==
    ASSUME Inv, NEW t \in Onglets, NEW q \in enVol[t],
           ServirLogin(t, q) \/ Servir(t, q)
    PROVE  Inv'
<1>0. /\ TypeOK /\ q \in Envois /\ page[t] = "front" /\ RequeteOK(q)
      /\ \A s \in enVol[t] : RequeteOK(s)
    BY DEF Inv, TypeOK, InvJetons, RequeteOK
<1>1. ASSUME NEW e \in {"ok", "401"}, NEW j \in 0 .. Len(jetons'),
             Repondu(t, q, e, j), Envois \subseteq Envois',
             q.type = "login" /\ e = "ok" => j # 0, q.type = "me" => j # 0
      PROVE  \E S \in SUBSET (Envois') : /\ enVol' = [enVol EXCEPT ![t] = S]
                                         /\ \A s \in S : RequeteOK(s)
    <2> DEFINE r == [q EXCEPT !.etat = e, !.jeton = j]
               S == (enVol[t] \ {q}) \cup {r}
    <2>1. r \in Envois' /\ r.etat = e /\ r.jeton = j /\ r.type = q.type
          /\ r.compte = q.compte
        BY <1>0, <1>1 DEF Envois
    <2> HIDE DEF r
    <2>2. RequeteOK(r)
        BY <1>0, <1>1, <2>1 DEF RequeteOK
    <2>3. enVol[t] \subseteq Envois'
        BY <1>0, <1>1 DEF TypeOK
    <2>4. S \in SUBSET (Envois') /\ \A s \in S : RequeteOK(s)
        BY <1>0, <2>1, <2>2, <2>3
    <2>5. enVol' = [enVol EXCEPT ![t] = S]
        BY <1>0, <1>1 DEF Repondu, TypeOK, r
    <2> QED
        BY <2>4, <2>5
<1>2. CASE ServirLogin(t, q)
    <2>1. q.type = "login" /\ q.compte \in Comptes
          /\ UNCHANGED <<expires, jeton, session, page, destination, isLoggedIn,
                         userEmail, userRoles, gestes>>
        BY <1>0, <1>2 DEF ServirLogin, RequeteOK, signaux
    <2>2. CASE jetons' = Append(jetons, q.compte)
               /\ Repondu(t, q, "ok", Len(jetons) + 1)
        <3>1. /\ (jetons \in Seq(Comptes))' /\ Lieux \subseteq Lieux'
              /\ Envois \subseteq Envois' /\ Len(jetons) \in Nat
              /\ Len(jetons') = Len(jetons) + 1
            BY <1>0, <2>1, <2>2, JetonAjoute DEF TypeOK
        <3>2. Len(jetons) + 1 \in 0 .. Len(jetons') /\ Len(jetons) + 1 # 0
            BY <3>1
        <3>3. PICK S \in SUBSET (Envois') : /\ enVol' = [enVol EXCEPT ![t] = S]
                                            /\ \A s \in S : RequeteOK(s)
            BY <1>1, <2>1, <2>2, <3>1, <3>2
        <3>4. /\ 1 .. Len(jetons) \subseteq 1 .. Len(jetons')
              /\ 0 .. Len(jetons) \subseteq 0 .. Len(jetons')
            BY <3>1
        <3> QED
            BY <1>0, <2>1, <3>1, <3>3, <3>4, FrontInv DEF TypeOK
    <2>3. CASE jetons' = jetons /\ Repondu(t, q, "401", 0)
        <3>1. Lieux' = Lieux /\ Envois' = Envois /\ 0 \in 0 .. Len(jetons')
            BY <1>0, <2>3 DEF Lieux, Envois, TypeOK
        <3>3. PICK S \in SUBSET (Envois') : /\ enVol' = [enVol EXCEPT ![t] = S]
                                            /\ \A s \in S : RequeteOK(s)
            BY <1>1, <2>1, <2>3, <3>1
        <3> QED
            BY <1>0, <2>1, <2>3, <3>1, <3>3, FrontInv DEF TypeOK
    <2> QED
        BY <1>2, <2>2, <2>3 DEF ServirLogin
<1>3. CASE Servir(t, q)
    <2>1. /\ q.type # "login"
          /\ UNCHANGED <<jetons, expires, jeton, session, page, destination,
                         isLoggedIn, userEmail, userRoles, gestes>>
          /\ Repondu(t, q, "ok", q.jeton) \/ Repondu(t, q, "401", q.jeton)
        BY <1>3 DEF Servir, serveur, signaux
    <2>2. Lieux' = Lieux /\ Envois' = Envois /\ q.jeton \in 0 .. Len(jetons')
        BY <1>0, <2>1 DEF Lieux, Envois
    <2>3. PICK S \in SUBSET (Envois') : /\ enVol' = [enVol EXCEPT ![t] = S]
                                        /\ \A s \in S : RequeteOK(s)
        BY <1>0, <1>1, <2>1, <2>2 DEF RequeteOK
    <2> QED
        BY <1>0, <2>1, <2>2, <2>3, FrontInv DEF TypeOK
<1> QED
    BY <1>2, <1>3

\* What the page does with an answer or with a failure.
LEMMA RecevoirInv ==
    ASSUME Inv, NEW t \in Onglets, NEW q \in enVol[t], Recevoir(t, q) PROVE Inv'
<1>0. /\ TypeOK /\ q \in Envois /\ page[t] = "front" /\ RequeteOK(q)
      /\ \A s \in enVol[t] : RequeteOK(s) /\ s \in Envois
    BY DEF Inv, TypeOK, InvJetons, RequeteOK
<1>1. /\ jetons' = jetons /\ expires' = expires /\ session' = session
      /\ page' = page /\ gestes' = gestes
    BY DEF Recevoir, RecevoirMe, RecevoirMeErreur, RecevoirAutre, RecevoirLogin,
           RecevoirErreur, serveur
<1>2. Lieux' = Lieux /\ Envois' = Envois /\ Len(jetons) \in Nat
    BY <1>0, <1>1 DEF Lieux, Envois, TypeOK
<1>3. ASSUME q.jeton # 0 PROVE q.jeton \in 1 .. Len(jetons)
                               /\ jetons[q.jeton] \in Comptes
    BY <1>0, <1>2, <1>3 DEF Envois, TypeOK
<1> DEFINE S == enVol[t] \ {q}
<1>4. S \subseteq Envois' /\ \A s \in S : RequeteOK(s)
    BY <1>0, <1>2
<1> HIDE DEF S
<1>5. CASE RecevoirMe(t, q)
    <2>1. /\ q.jeton # 0 /\ enVol' = [enVol EXCEPT ![t] = S]
          /\ UNCHANGED <<jeton, destination, isLoggedIn>>
          /\ userEmail' = [userEmail EXCEPT ![t] = jetons[q.jeton]]
          /\ userRoles' = [userRoles EXCEPT ![t] = jetons[q.jeton]]
        BY <1>0, <1>5 DEF RecevoirMe, Sans, RequeteOK, TypeOK, S
    <2>2. /\ userEmail' \in [Onglets -> Comptes \cup {Nul}]
          /\ userRoles' \in [Onglets -> Comptes \cup {Nul}]
        BY <1>0, <1>3, <2>1 DEF TypeOK
    <2> QED
        BY <1>0, <1>1, <1>2, <1>4, <2>1, <2>2, FrontInv DEF TypeOK
<1>6. CASE RecevoirMeErreur(t, q)
    <2>1. /\ enVol' = [enVol EXCEPT ![t] = S] /\ jeton' = 0
          /\ Aller(t, Lieu("logout", 0))
          /\ isLoggedIn' \in [Onglets -> BOOLEAN]
          /\ userEmail' \in [Onglets -> Comptes \cup {Nul}]
          /\ userRoles' \in [Onglets -> Comptes \cup {Nul}]
        BY <1>0, <1>6 DEF RecevoirMeErreur, LocalLogout, Sans, TypeOK, S
    <2>2. 0 \in 0 .. Len(jetons)
        BY <1>2
    <2>3. Lieu("logout", 0) \in Lieux /\ Lieu("logout", 0).url = "logout"
        BY <2>2, LieuType DEF Urls
    <2> QED
        BY <1>0, <1>1, <1>2, <1>4, <2>1, <2>3, <2>2, FrontInv DEF TypeOK
<1>7. CASE RecevoirAutre(t, q) \/ RecevoirErreur(t, q)
    <2>1. /\ enVol' = [enVol EXCEPT ![t] = S] /\ jeton' \in {0, jeton}
          /\ UNCHANGED <<destination, isLoggedIn, userEmail, userRoles>>
        BY <1>0, <1>7 DEF RecevoirAutre, RecevoirErreur, Sans, TypeOK, signaux, S
    <2>2. jeton' \in 0 .. Len(jetons')
        BY <1>0, <1>1, <1>2, <2>1 DEF TypeOK
    <2> QED
        BY <1>0, <1>1, <1>2, <1>4, <2>1, <2>2, FrontInv DEF TypeOK
<1>8. CASE RecevoirLogin(t, q)
    <2> DEFINE m == Requete("me", q.jeton, Nul)
               T == S \cup {m}
               l == Lieu("to-symfony", q.jeton)
    <2>0. q.jeton # 0
        BY <1>0, <1>8 DEF RecevoirLogin, RequeteOK
    <2>1. /\ enVol' = [enVol EXCEPT ![t] = T] /\ jeton' = q.jeton
          /\ isLoggedIn' = [isLoggedIn EXCEPT ![t] = TRUE]
          /\ userRoles' = [userRoles EXCEPT ![t] = jetons[q.jeton]]
          /\ userEmail' = userEmail /\ Aller(t, l)
        BY <1>8 DEF RecevoirLogin, HandleLoginSuccess, S
    <2>2. q.jeton \in 0 .. Len(jetons)
        BY <1>2, <1>3, <2>0
    <2>3. m \in Envois' /\ RequeteOK(m)
        BY <1>2, <2>0, <2>2, RequeteType DEF RequeteOK
    <2>4. l \in Lieux' /\ l.jeton # 0
        BY <1>2, <2>0, <2>2, LieuType DEF Urls
    <2> HIDE DEF m, l
    <2>5. T \subseteq Envois' /\ \A s \in T : RequeteOK(s)
        BY <1>4, <2>3
    <2> HIDE DEF T
    <2>6. /\ isLoggedIn' \in [Onglets -> BOOLEAN]
          /\ userRoles' \in [Onglets -> Comptes \cup {Nul}]
        BY <1>0, <1>3, <2>0, <2>1 DEF TypeOK
    <2> QED
        BY <1>0, <1>1, <1>2, <2>1, <2>2, <2>4, <2>5, <2>6, FrontInv DEF TypeOK
<1> QED
    BY <1>5, <1>6, <1>7, <1>8 DEF Recevoir

\* A front page is loaded, in one of its three ways.
LEMMA ChargerFrontInv ==
    ASSUME Inv, NEW t \in Onglets, ChargerFront(t) PROVE Inv'
<1> DEFINE d == destination[t]
           R == RequetesAuChargement
<1>0. /\ TypeOK /\ d \in Lieux /\ Len(jetons) \in Nat
      /\ (d.url = "front?token" => d.jeton # 0)
    BY DEF Inv, TypeOK, InvJetons
<1>1. /\ jetons' = jetons /\ expires' = expires /\ session' = session
      /\ gestes' = gestes /\ page' = [page EXCEPT ![t] = "front"]
      /\ Aller(t, NullePart)
    BY DEF ChargerFront, serveur
<1>2. Lieux' = Lieux /\ Envois' = Envois
    BY <1>1 DEF Lieux, Envois
<1>3. 0 \in 0 .. Len(jetons) /\ jeton \in 0 .. Len(jetons)
      /\ d.jeton \in 0 .. Len(jetons)
    BY <1>0 DEF Lieux, TypeOK
<1>4. NullePart \in Lieux /\ NullePart.url = "nulle part"
    <2>1. /\ Lieu("nulle part", 0) \in Lieux
          /\ Lieu("nulle part", 0).url = "nulle part"
        <3>1. 0 \in 0 .. Len(jetons)
            BY <1>3
        <3>2. "nulle part" \in Urls
            BY DEF Urls
        <3> QED
            BY <3>1, <3>2, LieuType
    <2> QED
        BY <2>1 DEF NullePart
<1>5. page' \in [Onglets -> Pages] /\ page'[t] = "front"
      /\ \A s \in Onglets \ {t} : page'[s] = page[s]
    BY <1>0, <1>1 DEF TypeOK, Pages
<1>6. R \subseteq Envois /\ \A s \in R : RequeteOK(s)
    <2>1. jeton # 0 => /\ Requete("me", jeton, Nul) \in Envois
                       /\ RequeteOK(Requete("me", jeton, Nul))
        BY <1>3, RequeteType DEF RequeteOK
    <2> QED
        BY <2>1 DEF RequetesAuChargement
<1> HIDE DEF R
<1>7. CASE d.url = "front?token"
    <2> DEFINE m == Requete("me", d.jeton, Nul)
               T == R \cup {m}
    <2>0. d.jeton # 0 /\ d.jeton \in 1 .. Len(jetons)
          /\ jetons[d.jeton] \in Comptes
        BY <1>0, <1>3, <1>7 DEF TypeOK
    <2>1. /\ enVol' = [enVol EXCEPT ![t] = T] /\ jeton' = d.jeton
          /\ isLoggedIn' = [isLoggedIn EXCEPT ![t] = TRUE]
          /\ userRoles' = [userRoles EXCEPT ![t] = jetons[d.jeton]]
          /\ userEmail' = [userEmail EXCEPT ![t] = Nul]
        BY <1>7 DEF ChargerFront, HandleLoginSuccess, R
    <2>2. m \in Envois /\ RequeteOK(m)
        BY <1>3, <2>0, RequeteType DEF RequeteOK
    <2> HIDE DEF m
    <2>3. T \subseteq Envois' /\ \A s \in T : RequeteOK(s)
        BY <1>2, <1>6, <2>2
    <2> HIDE DEF T
    <2>4. /\ isLoggedIn' \in [Onglets -> BOOLEAN]
          /\ userEmail' \in [Onglets -> Comptes \cup {Nul}]
          /\ userRoles' \in [Onglets -> Comptes \cup {Nul}]
        BY <1>0, <2>0, <2>1 DEF TypeOK
    <2> QED
        BY <1>0, <1>1, <1>2, <1>3, <1>4, <1>5, <2>1, <2>3, <2>4, FrontInv
        DEF TypeOK
<1>8. CASE d.url # "front?token"
    <2>1. /\ enVol' = [enVol EXCEPT ![t] = R] /\ jeton' \in {0, jeton}
          /\ isLoggedIn' \in [Onglets -> BOOLEAN]
          /\ userEmail' \in [Onglets -> Comptes \cup {Nul}]
          /\ userRoles' \in [Onglets -> Comptes \cup {Nul}]
        BY <1>0, <1>8 DEF ChargerFront, LocalLogout, ConnecteAuChargement,
                          TypeOK, R
    <2>2. jeton' \in 0 .. Len(jetons')
        BY <1>1, <1>3, <2>1
    <2> QED
        BY <1>0, <1>1, <1>2, <1>4, <1>5, <1>6, <2>1, <2>2, FrontInv DEF TypeOK
<1> QED
    BY <1>7, <1>8

\* What the person does in a tab.
LEMMA PersonneInv ==
    ASSUME Inv, NEW t \in Onglets, Personne(t) PROVE Inv'
<1>0. /\ TypeOK /\ Len(jetons) \in Nat /\ OngletOK(t)
      /\ 0 \in 0 .. Len(jetons) /\ jeton \in 0 .. Len(jetons)
    BY DEF Inv, TypeOK, InvJetons, OngletOK, RequeteOK
<1>1. /\ jetons' = jetons /\ expires' = expires /\ page' = page
      /\ gestes' \in Nat
    BY <1>0 DEF Personne, OnSubmit, ConnexionAdmin, Parcourir, GoToAdmin,
                Deconnecter, Ouvrir, OuvrirAdmin, Suivre, Geste, serveur, TypeOK
<1>2. Lieux' = Lieux /\ Envois' = Envois
    BY <1>1 DEF Lieux, Envois
<1>3. CASE OnSubmit(t) \/ Parcourir(t)
    <2>1. PICK q \in Envois : /\ RequeteOK(q) /\ page[t] = "front"
                              /\ enVol' = [enVol EXCEPT ![t] = @ \cup {q}]
        <3>1. \A c \in Comptes : /\ Requete("login", 0, c) \in Envois
                                 /\ RequeteOK(Requete("login", 0, c))
            BY <1>0, RequeteType DEF RequeteOK
        <3>2. /\ Requete("autre", jeton, Nul) \in Envois
              /\ RequeteOK(Requete("autre", jeton, Nul))
            BY <1>0, RequeteType DEF RequeteOK
        <3> QED
            BY <1>3, <3>1, <3>2 DEF OnSubmit, Parcourir
    <2>2. UNCHANGED <<session, jeton, destination, isLoggedIn, userEmail,
                      userRoles>>
        BY <1>3 DEF OnSubmit, Parcourir, serveur, signaux
    <2> DEFINE S == enVol[t] \cup {q}
    <2>3. S \subseteq Envois' /\ \A s \in S : RequeteOK(s)
        BY <1>0, <1>2, <2>1 DEF TypeOK, OngletOK
    <2>4. enVol' = [enVol EXCEPT ![t] = S]
        BY <1>0, <2>1 DEF TypeOK
    <2> HIDE DEF S
    <2> QED
        BY <1>0, <1>1, <1>2, <2>1, <2>2, <2>3, <2>4, FrontInv DEF TypeOK
<1>4. CASE \/ ConnexionAdmin(t) \/ GoToAdmin(t) \/ Deconnecter(t)
           \/ Ouvrir(t) \/ OuvrirAdmin(t)
    <2>1. PICK l \in Lieux : /\ Aller(t, l)
                             /\ l.url \in {"to-symfony", "front?token"}
                                    => l.jeton # 0
        <3>1. \A u \in {"admin", "logout", "front", "to-angular"} :
                /\ Lieu(u, 0) \in Lieux
                /\ Lieu(u, 0).url \notin {"to-symfony", "front?token"}
            BY <1>0, LieuType DEF Urls
        <3>2. /\ Lieu("to-symfony", jeton) \in Lieux
              /\ Lieu("to-symfony", jeton).jeton = jeton
            BY <1>0, LieuType DEF Urls
        <3> QED
            BY <1>4, <3>1, <3>2 DEF ConnexionAdmin, GoToAdmin, Deconnecter,
                                    Ouvrir, OuvrirAdmin, Suivre
    <2>2. /\ enVol' = enVol /\ session' \in Comptes \cup {Nul}
          /\ jeton' \in {0, jeton} /\ isLoggedIn' \in [Onglets -> BOOLEAN]
          /\ userEmail' \in [Onglets -> Comptes \cup {Nul}]
          /\ userRoles' \in [Onglets -> Comptes \cup {Nul}]
        BY <1>0, <1>4 DEF ConnexionAdmin, GoToAdmin, Deconnecter, Ouvrir,
                          OuvrirAdmin, Suivre, LocalLogout, serveur, signaux,
                          TypeOK
    <2>3. /\ (destination \in [Onglets -> Lieux])'
          /\ destination'[t] = l
          /\ \A s \in Onglets \ {t} : destination'[s] = destination[s]
        BY <1>0, <1>2, <2>1 DEF Aller, TypeOK
    <2>4. TypeOK'
        BY <1>0, <1>1, <1>2, <2>2, <2>3 DEF TypeOK
    <2>5. OngletOK(t)'
        BY <1>0, <1>1, <2>1, <2>2, <2>3 DEF OngletOK
    <2> QED
        BY <1>1, <2>2, <2>3, <2>4, <2>5, UnOnglet
<1> QED
    BY <1>3, <1>4 DEF Personne

\* Every step keeps the invariant.
LEMMA NextInv == Inv /\ [Next]_vars => Inv'
<1> SUFFICES ASSUME Inv, [Next]_vars PROVE Inv'
    OBVIOUS
<1>1. CASE UNCHANGED vars
    BY <1>1 DEF vars, Inv, TypeOK, InvJetons, Lieux, Envois
<1>2. CASE Expirer
    <2>1. UNCHANGED <<jetons, jeton, page, destination, isLoggedIn, userEmail,
                      userRoles, enVol>>
        BY <1>2 DEF Expirer, signaux
    <2>2. /\ expires' \subseteq 1 .. Len(jetons) /\ gestes' \in Nat
          /\ session' \in Comptes \cup {Nul}
        <3>1. expires \subseteq 1 .. Len(jetons) /\ gestes \in Nat
              /\ session \in Comptes \cup {Nul}
            BY DEF Inv, TypeOK
        <3>2. gestes' = gestes + 1
            BY <1>2 DEF Expirer, Geste
        <3>3. \/ /\ \E j \in 1 .. Len(jetons) \ expires : expires' = expires \cup {j}
                 /\ session' = session
              \/ session' = Nul /\ expires' = expires
            BY <1>2 DEF Expirer
        <3>4. gestes' \in Nat
            BY <3>1, <3>2
        <3>5. expires' \subseteq 1 .. Len(jetons)
            BY <3>1, <3>3
        <3> QED
            BY <3>1, <3>3, <3>4, <3>5
    <2>3. Lieux' = Lieux /\ Envois' = Envois
        BY <2>1 DEF Lieux, Envois
    <2>4. TypeOK'
        BY <2>1, <2>2, <2>3 DEF Inv, TypeOK
    <2> QED
        BY <2>1, <2>4 DEF Inv, InvJetons
<1>3. ASSUME NEW t \in Onglets, Requetes(t) PROVE Inv'
    BY <1>3, ServeurInv, RecevoirInv DEF Requetes
<1>4. ASSUME NEW t \in Onglets, Navigation(t) PROVE Inv'
    BY <1>4, ChargerFrontInv, SymfonyInv DEF Navigation
<1>5. ASSUME NEW t \in Onglets, Personne(t) PROVE Inv'
    BY <1>5, PersonneInv
<1> QED
    BY <1>1, <1>2, <1>3, <1>4, <1>5 DEF Next

\* The types and the tokens: /user/me, an accepted login and the bridge between
\* the applications (loadUserInfo, handleLoginSuccess, goToAdmin, toAngular)
\* always carry a token that has been issued, in any number of tabs.
THEOREM InvariantDesSessions == Spec => []Inv
<1>1. Init => Inv
    BY InitInv
<1>2. Inv /\ [Next]_vars => Inv'
    BY NextInv
<1> QED
    BY <1>1, <1>2, PTL DEF Spec

-----------------------------------------------------------------------------
(* One tab. *)

\* A tab that the person has not used has nothing under way.
Oisifs == \A s \in Onglets \ actifs : destination[s] = NullePart /\ enVol[s] = {}

\* Nothing moves in a tab that the person has not used, and a step in one tab
\* leaves what is under way in the others.
LEMMA OngletActif ==
    ASSUME Inv, Oisifs, NEW s \in Onglets,
           Requetes(s) \/ Navigation(s) \/ Personne(s)
    PROVE  /\ s \in actifs' /\ actifs \subseteq actifs'
           /\ ecarts \subseteq ecarts'
           /\ \A u \in Onglets \ {s} : /\ destination'[u] = destination[u]
                                       /\ enVol'[u] = enVol[u]
<1>0. /\ destination \in [Onglets -> Lieux] /\ enVol \in [Onglets -> SUBSET Envois]
      /\ NullePart.url = "nulle part"
    BY DEF Inv, TypeOK, NullePart, Lieu
<1>1. CASE Requetes(s)
    <2>1. PICK q \in enVol[s] :
            ServirLogin(s, q) \/ Servir(s, q) \/ Recevoir(s, q)
        BY <1>1 DEF Requetes
    <2>2. actifs' = actifs /\ ecarts' = ecarts
        BY <1>1 DEF Requetes, historique
    <2>3. \/ destination' = destination
          \/ \E l : destination' = [destination EXCEPT ![s] = l]
        BY <2>1 DEF ServirLogin, Servir, Recevoir, RecevoirMe, RecevoirMeErreur,
                    RecevoirAutre, RecevoirLogin, RecevoirErreur, Aller
    <2>4. \E S : enVol' = [enVol EXCEPT ![s] = S]
        BY <2>1 DEF ServirLogin, Servir, Recevoir, RecevoirMe, RecevoirMeErreur,
                    RecevoirAutre, RecevoirLogin, RecevoirErreur, Repondu, Sans,
                    HandleLoginSuccess
    <2>5. s \in actifs
        BY <2>1 DEF Oisifs
    <2> QED
        BY <1>0, <2>2, <2>3, <2>4, <2>5
<1>2. CASE Navigation(s)
    <2>1. actifs' = actifs /\ ecarts' = ecarts
        BY <1>2 DEF Navigation, historique
    <2>2. destination[s].url # "nulle part"
        BY <1>2 DEF Navigation, ChargerFront, ToSymfony, ToAngular, Logout, Admin
    <2>3. s \in actifs
        BY <1>0, <2>2 DEF Oisifs
    <2>4. \E l : destination' = [destination EXCEPT ![s] = l]
        BY <1>2 DEF Navigation, ChargerFront, ToSymfony, ToAngular, Logout, Admin,
                    Aller
    <2>5. \E S : enVol' = [enVol EXCEPT ![s] = S]
        BY <1>2 DEF Navigation, ChargerFront, ToSymfony, ToAngular, Logout, Admin,
                    Quitter, HandleLoginSuccess
    <2> QED
        BY <1>0, <2>1, <2>3, <2>4, <2>5
<1>3. CASE Personne(s)
    <2>1. actifs' = actifs \cup {s} /\ ecarts \subseteq ecarts'
        BY <1>3 DEF Personne
    <2>2. \/ destination' = destination
          \/ \E l : destination' = [destination EXCEPT ![s] = l]
        BY <1>3 DEF Personne, OnSubmit, ConnexionAdmin, Parcourir, GoToAdmin,
                    Deconnecter, Ouvrir, OuvrirAdmin, Suivre, Aller
    <2>3. \/ enVol' = enVol
          \/ \E S : enVol' = [enVol EXCEPT ![s] = S]
        BY <1>3 DEF Personne, OnSubmit, ConnexionAdmin, Parcourir, GoToAdmin,
                    Deconnecter, Ouvrir, OuvrirAdmin, Suivre
    <2> QED
        BY <1>0, <2>1, <2>2, <2>3
<1> QED
    BY <1>1, <1>2, <1>3

\* The tabs that are not used stay idle.
LEMMA ToujoursOisifs == Spec => []Oisifs
<1>1. Init => Oisifs
    BY DEF Init, Oisifs
<1>2. Inv /\ Oisifs /\ [Next]_vars => Oisifs'
    <2> SUFFICES ASSUME Inv, Oisifs, [Next]_vars PROVE Oisifs'
        OBVIOUS
    <2>1. CASE UNCHANGED vars \/ Expirer
        BY <2>1 DEF vars, Expirer, historique, Oisifs, NullePart, Lieu
    <2>2. ASSUME NEW s \in Onglets, Requetes(s) \/ Navigation(s) \/ Personne(s)
          PROVE  Oisifs'
        <3>1. /\ s \in actifs' /\ actifs \subseteq actifs'
              /\ \A u \in Onglets \ {s} : /\ destination'[u] = destination[u]
                                          /\ enVol'[u] = enVol[u]
            BY <2>2, OngletActif
        <3> QED
            BY <3>1 DEF Oisifs, NullePart, Lieu
    <2> QED
        BY <2>1, <2>2 DEF Next
<1> QED
    BY <1>1, <1>2, InvariantDesSessions, PTL DEF Spec

\* To someone who uses one tab, a token in localStorage is always shown as a login
\* by the front page (the constructor of AuthService, handleLoginSuccess,
\* localLogout), whatever expires or fails.
THEOREM JetonToujoursVisible == Spec => []JetonVisible
<1>1. Init => JetonVisible
    BY DEF Init, JetonVisible
<1>2. Inv /\ Oisifs /\ JetonVisible /\ [Next]_vars => JetonVisible'
    <2> SUFFICES ASSUME Inv, Oisifs, JetonVisible, [Next]_vars,
                        NEW t \in Onglets, actifs' \subseteq {t},
                        page'[t] = "front", jeton' # 0
                 PROVE  isLoggedIn'[t]
        BY DEF JetonVisible
    <2>0. /\ TypeOK
          /\ actifs \subseteq {t} /\ page[t] = "front" /\ jeton # 0 => isLoggedIn[t]
          /\ \A s \in Onglets : Requetes(s) \/ Navigation(s) \/ Personne(s)
                => s = t /\ actifs \subseteq {t}
        BY OngletActif DEF Inv, JetonVisible
    <2>1. CASE /\ page'[t] = page[t] /\ jeton' \in {0, jeton}
               /\ isLoggedIn'[t] = isLoggedIn[t] /\ actifs \subseteq {t}
        BY <2>0, <2>1
    <2>2. CASE UNCHANGED vars \/ Expirer
        BY <2>1, <2>2 DEF vars, Expirer, signaux, historique
    <2>3. CASE Requetes(t)
        <3>1. PICK q \in enVol[t] :
                ServirLogin(t, q) \/ Servir(t, q) \/ Recevoir(t, q)
            BY <2>3 DEF Requetes
        <3>2. page' = page
            BY <3>1 DEF ServirLogin, Servir, Recevoir, RecevoirMe,
                        RecevoirMeErreur, RecevoirAutre, RecevoirLogin,
                        RecevoirErreur
        <3>3. \/ jeton' \in {0, jeton} /\ isLoggedIn' = isLoggedIn
              \/ jeton' = 0
              \/ isLoggedIn' = [isLoggedIn EXCEPT ![t] = TRUE]
            BY <3>1 DEF ServirLogin, Servir, Recevoir, RecevoirMe, LocalLogout,
                        RecevoirMeErreur, RecevoirAutre, RecevoirLogin,
                        HandleLoginSuccess, RecevoirErreur, signaux
        <3> QED
            BY <2>0, <2>1, <2>3, <3>2, <3>3 DEF TypeOK
    <2>4. CASE Navigation(t)
        <3>1. CASE ChargerFront(t)
            <4>1. \/ /\ isLoggedIn' = [isLoggedIn EXCEPT ![t] = jeton # 0]
                     /\ jeton' = jeton
                  \/ isLoggedIn' = [isLoggedIn EXCEPT ![t] = TRUE]
                  \/ jeton' = 0
                BY <3>1 DEF ChargerFront, ConnecteAuChargement,
                            HandleLoginSuccess, LocalLogout
            <4> QED
                BY <2>0, <4>1 DEF TypeOK
        <3>2. CASE ToSymfony(t) \/ ToAngular(t) \/ Logout(t) \/ Admin(t)
            <4>1. \E p \in {"redirection", "erreur", "connexion", "admin"} :
                    Quitter(t, p)
                BY <3>2 DEF ToSymfony, ToAngular, Logout, Admin
            <4>2. page'[t] # "front"
                BY <2>0, <4>1 DEF Quitter, TypeOK
            <4> QED
                BY <4>2
        <3> QED
            BY <2>4, <3>1, <3>2 DEF Navigation
    <2>5. CASE Personne(t)
        <3>1. page' = page
              /\ (jeton' = 0 \/ (jeton' = jeton /\ isLoggedIn' = isLoggedIn))
            BY <2>5 DEF Personne, OnSubmit, ConnexionAdmin, Parcourir, GoToAdmin,
                        Deconnecter, Ouvrir, OuvrirAdmin, Suivre, LocalLogout,
                        signaux
        <3> QED
            BY <2>0, <2>1, <2>5, <3>1
    <2> QED
        BY <2>0, <2>2, <2>3, <2>4, <2>5 DEF Next
<1> QED
    BY <1>1, <1>2, InvariantDesSessions, ToujoursOisifs, PTL DEF Spec

\* The session is closed on the way back from logging out.
SessionFermee == \A t \in Onglets :
    actifs \subseteq {t} /\ destination[t].url = "front?action=logout"
        => session = Nul

\* Whoever uses one tab and comes back from logging out, from the front or from
\* the back office (logout, logoutRedirect, localLogout), has neither token nor
\* session left.
THEOREM DeconnexionToujoursComplete == Spec => DeconnexionComplete
<1>1. Init => SessionFermee
    BY DEF Init, SessionFermee, NullePart, Lieu
<1>2. Inv /\ Oisifs /\ SessionFermee /\ [Next]_vars => SessionFermee'
    <2> SUFFICES ASSUME Inv, Oisifs, SessionFermee, [Next]_vars,
                        NEW t \in Onglets, actifs' \subseteq {t},
                        destination'[t].url = "front?action=logout"
                 PROVE  session' = Nul
        BY DEF SessionFermee
    <2>0. /\ TypeOK
          /\ actifs \subseteq {t} /\ destination[t].url = "front?action=logout"
                => session = Nul
          /\ \A s \in Onglets : Requetes(s) \/ Navigation(s) \/ Personne(s)
                => s = t /\ actifs \subseteq {t}
        BY OngletActif DEF Inv, SessionFermee
    <2>1. CASE /\ destination' = destination /\ session' \in {Nul, session}
               /\ actifs \subseteq {t}
        BY <2>0, <2>1
    <2>2. ASSUME NEW u, NEW j, Aller(t, Lieu(u, j)), u # "front?action=logout"
          PROVE  FALSE
        BY <2>0, <2>2 DEF Aller, Lieu, TypeOK
    <2>3. CASE UNCHANGED vars \/ Expirer
        BY <2>1, <2>3 DEF vars, Expirer, historique
    <2>4. CASE Requetes(t)
        <3>1. \/ destination' = destination /\ session' = session
              \/ Aller(t, Lieu("logout", 0))
              \/ \E j : Aller(t, Lieu("to-symfony", j))
            BY <2>4 DEF Requetes, ServirLogin, Servir, Recevoir, RecevoirMe,
                        RecevoirMeErreur, RecevoirAutre, RecevoirLogin,
                        RecevoirErreur, serveur
        <3> QED
            BY <2>0, <2>1, <2>2, <2>4, <3>1
    <2>5. CASE Navigation(t)
        <3>1. \/ session' = Nul
              \/ \E u, j : u # "front?action=logout" /\ Aller(t, Lieu(u, j))
            BY <2>5 DEF Navigation, ChargerFront, ToSymfony, ToAngular, Logout,
                        Admin, FinSession, NullePart
        <3> QED
            BY <2>2, <3>1
    <2>6. CASE Personne(t)
        <3>1. \/ destination' = destination /\ session' = session
              \/ \E u, j : u # "front?action=logout" /\ Aller(t, Lieu(u, j))
            BY <2>6 DEF Personne, OnSubmit, ConnexionAdmin, Parcourir, GoToAdmin,
                        Deconnecter, Ouvrir, OuvrirAdmin, Suivre, serveur
        <3> QED
            BY <2>0, <2>1, <2>2, <2>6, <3>1
    <2> QED
        BY <2>0, <2>3, <2>4, <2>5, <2>6 DEF Next
<1>3. Inv /\ SessionFermee => \A t \in Onglets :
        /\ actifs \subseteq {t}
        /\ destination[t].url = "front?action=logout" /\ ChargerFront(t)
        => jeton' = 0 /\ session' = Nul /\ ~isLoggedIn'[t]
    <2> SUFFICES ASSUME Inv, SessionFermee, NEW t \in Onglets,
                        actifs \subseteq {t},
                        destination[t].url = "front?action=logout",
                        ChargerFront(t)
                 PROVE  jeton' = 0 /\ session' = Nul /\ ~isLoggedIn'[t]
        OBVIOUS
    <2>1. LocalLogout(t) /\ session' = session
        BY DEF ChargerFront, serveur
    <2> QED
        BY <2>1 DEF LocalLogout, SessionFermee, Inv, TypeOK
<1> QED
    BY <1>1, <1>2, <1>3, InvariantDesSessions, ToujoursOisifs, PTL
    DEF Spec, DeconnexionComplete

-----------------------------------------------------------------------------
(* One account. *)

\* The token and the session belong to two accounts.
Ecart == jeton # 0 /\ session # Nul /\ jetons[jeton] # session

\* The front page is about to learn that its token has expired.
Attendue(t) == \E q \in enVol[t] :
    q.type = "me" /\ q.jeton = jeton /\ q.etat # "ok"

\* For someone who uses the tab t only, the front's form and no link while the tab
\* is on its way: two accounts are there together only on the way to the bridge, or
\* when the token has expired and the front has yet to learn it.
AccordOnglet(t) ==
    /\ destination[t].url = "to-symfony" => jeton \in {0, destination[t].jeton}
    /\ destination[t].url = "front?token"
           => session \in {Nul, jetons[destination[t].jeton]}
    /\ destination[t].url \in {"to-angular", "admin", "front?token"}
           => page[t] \in {"redirection", "admin"}
    /\ Ecart => \/ destination[t].url = "to-symfony"
                \/ /\ jeton \in expires
                   /\ \/ page[t] = "erreur" \/ destination[t].url = "front"
                      \/ Attendue(t)

\* The tokens issued, and the places they are in, stay what they are.
LEMMA JetonsGardes ==
    ASSUME Inv, [Next]_vars
    PROVE  \A j \in 1 .. Len(jetons) : jetons'[j] = jetons[j]
<1>0. jetons \in Seq(Comptes) /\ session \in Comptes \cup {Nul}
    BY DEF Inv, TypeOK
<1>1. \/ jetons' = jetons
      \/ \E c \in Comptes : jetons' = Append(jetons, c)
    <2>1. CASE UNCHANGED vars \/ Expirer
        BY <2>1 DEF vars, Expirer
    <2>2. ASSUME NEW t \in Onglets, NEW q \in enVol[t], ServirLogin(t, q)
          PROVE  jetons' = jetons \/ \E c \in Comptes : jetons' = Append(jetons, c)
        <3>1. q.compte \in Comptes
            BY <2>2 DEF Inv, InvJetons, ServirLogin
        <3> QED
            BY <2>2, <3>1 DEF ServirLogin
    <2>3. ASSUME NEW t \in Onglets, NEW q \in enVol[t],
                 Servir(t, q) \/ Recevoir(t, q)
          PROVE  jetons' = jetons
        BY <2>3 DEF Servir, Recevoir, RecevoirMe, RecevoirMeErreur, RecevoirAutre,
                    RecevoirLogin, RecevoirErreur, serveur
    <2>4. ASSUME NEW t \in Onglets, Navigation(t)
          PROVE  jetons' = jetons \/ \E c \in Comptes : jetons' = Append(jetons, c)
        BY <1>0, <2>4 DEF Navigation, ChargerFront, ToSymfony, ToAngular, Logout,
                          Admin, serveur
    <2>5. ASSUME NEW t \in Onglets, Personne(t) PROVE jetons' = jetons
        BY <2>5 DEF Personne, OnSubmit, ConnexionAdmin, Parcourir, GoToAdmin,
                    Deconnecter, Ouvrir, OuvrirAdmin, Suivre, serveur
    <2> QED
        BY <2>1, <2>2, <2>3, <2>4, <2>5 DEF Next, Requetes
<1> QED
    BY <1>0, <1>1, JetonAjoute

\* A request that is served or received keeps the two accounts explained.
LEMMA AccordRequetes ==
    ASSUME Inv, NEW t \in Onglets, NEW q \in enVol[t], AccordOnglet(t),
           \A j \in 1 .. Len(jetons) : jetons'[j] = jetons[j],
           ServirLogin(t, q) \/ Servir(t, q) \/ Recevoir(t, q)
    PROVE  AccordOnglet(t)'
<1>0. /\ TypeOK /\ q \in Envois /\ destination[t] \in Lieux
      /\ Len(jetons) \in Nat
      /\ (destination[t].url = "front?token"
             => destination[t].jeton \in 1 .. Len(jetons))
      /\ (jeton # 0 => jeton \in 1 .. Len(jetons))
    <2>1. /\ TypeOK /\ q \in Envois /\ destination[t] \in Lieux
          /\ (destination[t].url = "front?token" => destination[t].jeton # 0)
        BY DEF Inv, TypeOK, InvJetons
    <2>2. destination[t].jeton \in 0 .. Len(jetons) /\ Len(jetons) \in Nat
          /\ jeton \in 0 .. Len(jetons)
        BY <2>1 DEF TypeOK, Lieux
    <2>3. ASSUME NEW j \in 0 .. Len(jetons), j # 0 PROVE j \in 1 .. Len(jetons)
        BY <2>2, <2>3
    <2>4. jeton # 0 => jeton \in 1 .. Len(jetons)
        BY <2>2, <2>3
    <2>5. destination[t].jeton # 0 => destination[t].jeton \in 1 .. Len(jetons)
        BY <2>2, <2>3
    <2> QED
        BY <2>1, <2>2, <2>4, <2>5, Zenon
<1>1. expires' = expires /\ session' = session /\ page' = page
    BY DEF ServirLogin, Servir, Recevoir, RecevoirMe, RecevoirMeErreur,
           RecevoirAutre, RecevoirLogin, RecevoirErreur, serveur
<1>2. ASSUME destination' = destination, jeton' \in {0, jeton},
             Ecart => (Attendue(t) /\ jeton \in expires => Attendue(t)' \/ jeton' = 0)
      PROVE  AccordOnglet(t)'
    <2>1. Ecart' => Ecart /\ jeton' = jeton /\ jeton' # 0
        BY <1>0, <1>1, <1>2 DEF Ecart
    <2> QED
        BY <1>0, <1>1, <1>2, <2>1 DEF AccordOnglet
<1>3. CASE ServirLogin(t, q)
    <2>1. q.type = "login" /\ destination' = destination /\ jeton' = jeton
        BY <1>3 DEF ServirLogin
    <2>2. enVol[t] \ {q} \subseteq enVol'[t]
        BY <1>0, <1>3 DEF ServirLogin, Repondu, TypeOK
    <2>3. Attendue(t) => Attendue(t)'
        BY <2>1, <2>2 DEF Attendue
    <2> QED
        BY <1>2, <2>1, <2>3
<1>4. CASE Servir(t, q)
    <2>1. destination' = destination /\ jeton' = jeton
        BY <1>4 DEF Servir
    <2>2. ASSUME Attendue(t), jeton \in expires, jeton # 0 PROVE Attendue(t)'
        <3>1. PICK w \in enVol[t] :
                w.type = "me" /\ w.jeton = jeton /\ w.etat # "ok"
            BY <2>2 DEF Attendue
        <3>2. CASE w # q
            <4>1. w \in enVol'[t]
                BY <1>0, <1>4, <3>2 DEF Servir, Repondu, TypeOK
            <4> QED
                BY <2>1, <3>1, <4>1 DEF Attendue
        <3>3. CASE w = q
            <4> DEFINE r == [q EXCEPT !.etat = "401", !.jeton = q.jeton]
            <4>1. Repondu(t, q, "401", q.jeton)
                BY <1>4, <2>2, <3>1, <3>3 DEF Servir, Valide
            <4>2. r \in enVol'[t]
                BY <1>0, <4>1 DEF Repondu, TypeOK
            <4>3. r.type = "me" /\ r.jeton = jeton /\ r.etat # "ok"
                BY <1>0, <3>1, <3>3 DEF Envois
            <4> HIDE DEF r
            <4> QED
                BY <2>1, <4>2, <4>3 DEF Attendue
        <3> QED
            BY <3>2, <3>3
    <2> QED
        BY <1>2, <2>1, <2>2 DEF Ecart
<1>5. CASE RecevoirMe(t, q) \/ RecevoirAutre(t, q) \/ RecevoirErreur(t, q)
    <2>1. /\ destination' = destination /\ jeton' \in {0, jeton}
          /\ Sans(t, q) /\ (q.type # "me" \/ q.etat = "ok")
        BY <1>5 DEF RecevoirMe, RecevoirAutre, RecevoirErreur
    <2>2. enVol'[t] = enVol[t] \ {q}
        BY <1>0, <2>1 DEF Sans, TypeOK
    <2>3. Attendue(t) => Attendue(t)' \/ jeton' = 0
        BY <2>1, <2>2 DEF Attendue
    <2> QED
        BY <1>2, <2>1, <2>3
<1>6. CASE RecevoirMeErreur(t, q)
    <2>1. jeton' = 0 /\ destination'[t] = Lieu("logout", 0)
        BY <1>0, <1>6 DEF RecevoirMeErreur, LocalLogout, Aller, TypeOK
    <2> QED
        BY <2>1 DEF AccordOnglet, Ecart, Lieu
<1>7. CASE RecevoirLogin(t, q)
    <2>1. jeton' = q.jeton /\ destination'[t] = Lieu("to-symfony", q.jeton)
        BY <1>0, <1>7 DEF RecevoirLogin, HandleLoginSuccess, Aller, TypeOK
    <2>2. destination'[t].url = "to-symfony" /\ destination'[t].jeton = q.jeton
        BY <2>1 DEF Lieu
    <2>3. jeton' \in {0, destination'[t].jeton}
        BY <2>1, <2>2
    <2> QED
        BY <2>2, <2>3 DEF AccordOnglet
<1> QED
    BY <1>3, <1>4, <1>5, <1>6, <1>7 DEF Recevoir

\* So does a redirection, or the loading of the front page.
LEMMA AccordNavigation ==
    ASSUME Inv, NEW t \in Onglets, AccordOnglet(t), Navigation(t),
           \A j \in 1 .. Len(jetons) : jetons'[j] = jetons[j]
    PROVE  AccordOnglet(t)'
<1>0. /\ TypeOK /\ destination[t] \in Lieux /\ Len(jetons) \in Nat
      /\ (destination[t].url \in {"front?token", "to-symfony"}
             => destination[t].jeton \in 1 .. Len(jetons))
      /\ (jeton # 0 => jeton \in 1 .. Len(jetons))
    <2>1. /\ TypeOK /\ destination[t] \in Lieux
          /\ (destination[t].url \in {"front?token", "to-symfony"}
                 => destination[t].jeton # 0)
        BY DEF Inv, TypeOK, InvJetons
    <2>2. destination[t].jeton \in 0 .. Len(jetons) /\ Len(jetons) \in Nat
          /\ jeton \in 0 .. Len(jetons)
        BY <2>1 DEF TypeOK, Lieux
    <2>3. ASSUME NEW j \in 0 .. Len(jetons), j # 0 PROVE j \in 1 .. Len(jetons)
        BY <2>2, <2>3
    <2>4. jeton # 0 => jeton \in 1 .. Len(jetons)
        BY <2>2, <2>3
    <2>5. destination[t].jeton # 0 => destination[t].jeton \in 1 .. Len(jetons)
        BY <2>2, <2>3
    <2> QED
        BY <2>1, <2>2, <2>4, <2>5, Zenon
<1>1. ASSUME NEW u, NEW j, Aller(t, Lieu(u, j))
      PROVE  destination'[t].url = u /\ destination'[t].jeton = j
    BY <1>0, <1>1 DEF Aller, Lieu, TypeOK
<1>2. page[t] \in {"redirection", "admin"} => page[t] # "erreur" /\ ~Attendue(t)
    BY DEF Inv, InvJetons, Attendue
<1>3. ASSUME NEW p, Quitter(t, p) PROVE page'[t] = p /\ jeton' = jeton
    BY <1>0, <1>3 DEF Quitter, TypeOK
<1>4. CASE ChargerFront(t)
    <2>1. destination'[t].url = "nulle part" /\ session' = session
          /\ jetons' = jetons /\ expires' = expires
        BY <1>1, <1>4 DEF ChargerFront, NullePart, serveur
    <2>2. CASE destination[t].url = "front"
        <3>1. jeton' = jeton /\ enVol'[t] = RequetesAuChargement
            BY <1>0, <1>4, <2>2 DEF ChargerFront, TypeOK
        <3>2. ASSUME Ecart PROVE jeton \in expires /\ Attendue(t)'
            <4>1. jeton \in expires /\ jeton # 0
                BY <2>2, <3>2 DEF AccordOnglet, Ecart
            <4> DEFINE w == Requete("me", jeton, Nul)
            <4>2. w \in enVol'[t]
                BY <3>1, <4>1 DEF RequetesAuChargement
            <4>3. w.type = "me" /\ w.jeton = jeton /\ w.etat # "ok"
                BY DEF Requete
            <4> HIDE DEF w
            <4> QED
                BY <3>1, <4>1, <4>2, <4>3 DEF Attendue
        <3>3. Ecart' => Ecart
            BY <2>1, <3>1 DEF Ecart
        <3> QED
            BY <2>1, <3>1, <3>2, <3>3 DEF AccordOnglet
    <2>3. CASE destination[t].url = "front?token"
        <3>1. jeton' = destination[t].jeton
            BY <1>4, <2>3 DEF ChargerFront, HandleLoginSuccess
        <3>2. ~Ecart'
            BY <2>1, <2>3, <3>1 DEF AccordOnglet, Ecart
        <3> QED
            BY <2>1, <3>2 DEF AccordOnglet
    <2>4. CASE destination[t].url = "front?action=logout"
        <3>1. ~Ecart'
            BY <1>4, <2>4 DEF ChargerFront, LocalLogout, Ecart
        <3> QED
            BY <2>1, <3>1 DEF AccordOnglet
    <2> QED
        BY <1>4, <2>2, <2>3, <2>4 DEF ChargerFront
<1>5. CASE ToSymfony(t)
    <2>0. /\ destination[t].url = "to-symfony" /\ jetons' = jetons
          /\ expires' = expires /\ jeton \in {0, destination[t].jeton}
          /\ destination[t].jeton \in 1 .. Len(jetons)
        BY <1>0, <1>5 DEF ToSymfony, AccordOnglet
    <2>1. CASE Valide(destination[t].jeton)
        <3>1. /\ session' = jetons[destination[t].jeton]
              /\ Quitter(t, "redirection")
              /\ Aller(t, Lieu("admin", 0)) \/ Aller(t, Lieu("front", 0))
            BY <1>5, <2>1 DEF ToSymfony, SessionOuverte
        <3>2. ~Ecart' /\ page'[t] = "redirection"
            BY <1>3, <2>0, <3>1 DEF Ecart
        <3>3. destination'[t].url \in {"admin", "front"}
            BY <1>1, <3>1
        <3> QED
            BY <3>2, <3>3 DEF AccordOnglet
    <2>2. CASE ~Valide(destination[t].jeton)
        <3>1. Quitter(t, "erreur") /\ Aller(t, Lieu("nulle part", 0))
            BY <1>5, <2>2 DEF ToSymfony, NullePart
        <3>2. page'[t] = "erreur" /\ destination'[t].url = "nulle part"
              /\ jeton' = jeton
            BY <1>1, <1>3, <3>1
        <3>3. Ecart' => jeton' \in expires'
            BY <2>0, <2>2, <3>2 DEF Ecart, Valide
        <3> QED
            BY <3>2, <3>3 DEF AccordOnglet
    <2> QED
        BY <2>1, <2>2
<1>6. CASE ToAngular(t)
    <2>0. ~Ecart /\ session' = session /\ page'[t] = "redirection"
          /\ jeton' = jeton
        BY <1>2, <1>3, <1>6 DEF ToAngular, AccordOnglet
    <2>1. ~Ecart'
        BY <1>0, <2>0 DEF Ecart
    <2>2. CASE session # Nul
        <3>1. jetons' = Append(jetons, session)
              /\ destination'[t].url = "front?token"
              /\ destination'[t].jeton = Len(jetons) + 1
            BY <1>1, <1>6, <2>2 DEF ToAngular
        <3>2. jetons'[Len(jetons) + 1] = session
            BY <1>0, <2>2, <3>1, JetonAjoute DEF TypeOK
        <3> QED
            BY <2>0, <2>1, <3>1, <3>2 DEF AccordOnglet
    <2>3. CASE session = Nul
        <3>1. destination'[t].url = "front"
            BY <1>1, <1>6, <2>3 DEF ToAngular
        <3> QED
            BY <2>1, <3>1 DEF AccordOnglet
    <2> QED
        BY <2>2, <2>3
<1>7. CASE Logout(t)
    <2>1. session' = Nul /\ destination'[t].url = "front?action=logout"
        BY <1>1, <1>7 DEF Logout, FinSession
    <2> QED
        BY <2>1 DEF AccordOnglet, Ecart
<1>8. CASE Admin(t)
    <2>0. ~Ecart /\ session' = session /\ jetons' = jetons
        BY <1>2, <1>8 DEF Admin, AccordOnglet, serveur
    <2>1. /\ \E p : Quitter(t, p)
          /\ \/ Aller(t, Lieu("nulle part", 0))
             \/ Aller(t, Lieu("to-angular", 0)) /\ Quitter(t, "redirection")
        BY <1>8 DEF Admin, NullePart
    <2>2. ~Ecart'
        BY <1>3, <2>0, <2>1 DEF Ecart
    <2>3. \/ destination'[t].url = "nulle part"
          \/ destination'[t].url = "to-angular" /\ page'[t] = "redirection"
        BY <1>1, <1>3, <2>1
    <2> QED
        BY <2>2, <2>3 DEF AccordOnglet
<1> QED
    BY <1>4, <1>5, <1>6, <1>7, <1>8 DEF Navigation

\* And what the person does, in a tab that is going nowhere.
LEMMA AccordPersonne ==
    ASSUME Inv, NEW t \in Onglets, AccordOnglet(t), Personne(t),
           ecarts' = {}
    PROVE  AccordOnglet(t)'
<1>0. TypeOK /\ destination[t].url = "nulle part"
    <2>0. Hate(t) \subseteq ecarts'
        BY DEF Personne
    <2>1. destination[t] = NullePart
        BY <2>0 DEF Hate
    <2>2. NullePart.url = "nulle part"
        BY DEF NullePart, Lieu
    <2> QED
        BY <2>1, <2>2 DEF Inv
<1>1. ASSUME NEW u, NEW j, Aller(t, Lieu(u, j))
      PROVE  destination'[t].url = u /\ destination'[t].jeton = j
    BY <1>0, <1>1 DEF Aller, Lieu, TypeOK
<1>2. page[t] = "admin" => ~Ecart
    BY <1>0 DEF AccordOnglet, Attendue, Inv, InvJetons
<1>3. CASE OnSubmit(t) \/ Parcourir(t)
    <2>1. /\ UNCHANGED <<jetons, expires, session, jeton, page, destination>>
          /\ \E q : enVol' = [enVol EXCEPT ![t] = @ \cup {q}]
        BY <1>3 DEF OnSubmit, Parcourir, serveur
    <2>2. Attendue(t) => Attendue(t)'
        BY <1>0, <2>1 DEF Attendue, TypeOK
    <2> QED
        BY <2>1, <2>2 DEF AccordOnglet, Ecart
<1>4. CASE GoToAdmin(t)
    <2>1. destination'[t].url = "to-symfony" /\ destination'[t].jeton = jeton'
        BY <1>1, <1>4 DEF GoToAdmin
    <2> QED
        BY <2>1 DEF AccordOnglet
<1>5. CASE Deconnecter(t)
    <2>1. destination'[t].url = "logout" /\ jeton' = 0
        BY <1>1, <1>5 DEF Deconnecter, LocalLogout
    <2> QED
        BY <2>1 DEF AccordOnglet, Ecart
<1>6. CASE Ouvrir(t)
    <2>1. PICK u \in {"front", "to-angular", "logout"} :
            /\ u \in {"to-angular", "logout"} => page[t] = "admin"
            /\ Suivre(t, u)
        BY <1>6 DEF Ouvrir
    <2>2. UNCHANGED <<jetons, expires, session, jeton, page, enVol>>
        BY <2>1 DEF Suivre, serveur
    <2>3. destination'[t].url = u
        BY <1>1, <2>1 DEF Suivre
    <2>4. Ecart' => Ecart /\ u = "front"
        BY <1>2, <2>1, <2>2 DEF Ecart
    <2> QED
        BY <1>0, <2>1, <2>2, <2>3, <2>4 DEF AccordOnglet
<1>7. "admin" \notin ecarts'
    OBVIOUS
<1> QED
    BY <1>3, <1>4, <1>5, <1>6, <1>7 DEF Personne

\* For someone who uses one tab and the front's login form only, and lets the
\* bridge finish, the token and the session belong to the same account whenever
\* nothing is under way and the bridge has not failed (onSubmit, toSymfony,
\* toAngular).
THEOREM UnSeulCompte == Spec => []MemeCompte
<1> DEFINE Accord == ecarts = {} => \A t \in Onglets :
                         actifs \subseteq {t} => AccordOnglet(t)
<1>1. Init => Accord
    <2>1. ASSUME Init, NEW t \in Onglets PROVE AccordOnglet(t)
        BY <2>1 DEF Init, AccordOnglet, Ecart, NullePart, Lieu
    <2> QED
        BY <2>1
<1>2. Inv /\ Oisifs /\ Accord /\ [Next]_vars => Accord'
    <2> SUFFICES ASSUME Inv, Oisifs, Accord, [Next]_vars, ecarts' = {},
                        NEW t \in Onglets, actifs' \subseteq {t}
                 PROVE  AccordOnglet(t)'
        OBVIOUS
    <2>0. /\ \A j \in 1 .. Len(jetons) : jetons'[j] = jetons[j]
          /\ \A s \in Onglets : Requetes(s) \/ Navigation(s) \/ Personne(s)
                => s = t /\ actifs \subseteq {t} /\ ecarts = {}
        BY JetonsGardes, OngletActif
    <2>a. AccordOnglet(t)
        <3>1. CASE UNCHANGED vars \/ Expirer
            BY <3>1 DEF vars, Expirer, historique
        <3> QED
            BY <2>0, <3>1 DEF Next
    <2>1. CASE UNCHANGED vars
        BY <2>a, <2>1 DEF vars, AccordOnglet, Ecart, Attendue
    <2>2. CASE Expirer
        <3>1. /\ UNCHANGED <<jetons, jeton, page, destination, enVol>>
              /\ session' \in {Nul, session} /\ expires \subseteq expires'
            BY <2>2 DEF Expirer
        <3> QED
            BY <2>a, <3>1 DEF AccordOnglet, Ecart, Attendue
    <2>3. CASE Requetes(t)
        BY <2>0, <2>a, <2>3, AccordRequetes DEF Requetes
    <2>4. CASE Navigation(t)
        BY <2>0, <2>a, <2>4, AccordNavigation
    <2>5. CASE Personne(t)
        BY <2>a, <2>5, AccordPersonne
    <2> QED
        BY <2>0, <2>1, <2>2, <2>3, <2>4, <2>5 DEF Next
<1>3. Accord => MemeCompte
    <2>1. ASSUME NEW t \in Onglets, AccordOnglet(t), Calme, page[t] # "erreur",
                 jeton # 0, session # Nul
          PROVE  jetons[jeton] = session
        <3>0. NullePart.url = "nulle part"
            BY DEF NullePart, Lieu
        <3>1. destination[t].url = "nulle part" /\ enVol[t] = {}
            BY <2>1, <3>0 DEF Calme
        <3> QED
            BY <2>1, <3>1 DEF AccordOnglet, Ecart, Attendue
    <2> QED
        BY <2>1 DEF MemeCompte
<1> HIDE DEF Accord
<1> QED
    BY <1>1, <1>2, <1>3, InvariantDesSessions, ToujoursOisifs, PTL DEF Spec
=============================================================================
