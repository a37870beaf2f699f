---------------------------- MODULE SessionAuth ----------------------------
(***************************************************************************)
(* Logging in and out across the two applications: the JWT that Angular    *)
(* keeps in localStorage, the PHP session of the back office, and the      *)
(* bridge between them (SsoController).  Tabs share the token and the      *)
(* session; each front page has its own signals and its own requests in    *)
(* flight.  Assigning window.location.href does not stop the page: answers *)
(* go on arriving until the navigation happens, which drops the requests.  *)
(* A person is followed through the accounts they own.                     *)
(***************************************************************************)
EXTENDS Naturals, FiniteSets, Sequences

CONSTANTS
    Onglets,        \* browser tabs
    Comptes,        \* accounts
    Biblios,        \* those with ROLE_BIBLIO
    MaxJetons,      \* bound: tokens issued
    MaxGestes,      \* bound: things the person does
    Nul

VARIABLES
    jetons,         \* jetons[n]: the account of the n-th token issued
    expires,        \* tokens that are no longer valid
    jeton,          \* localStorage.jwt_token, 0 when there is none
    session,        \* account of the PHP session, Nul when there is none
    page,           \* what each tab shows
    destination,    \* where each tab is going
    isLoggedIn, userEmail, userRoles,   \* the signals of AuthService
    enVol,          \* requests under way in each tab
    gestes,
    actifs,         \* history: tabs the person has used
    ecarts          \* history: "hate", a click in a tab that was on its way
                    \* elsewhere; "admin", the back office's own door

serveur == <<jetons, expires, session>>
signaux == <<isLoggedIn, userEmail, userRoles>>
historique == <<actifs, ecarts>>
vars == <<jetons, expires, jeton, session, page, destination, isLoggedIn,
          userEmail, userRoles, enVol, gestes, actifs, ecarts>>

ASSUME SessionHypotheses ==
    /\ Biblios \subseteq Comptes /\ Nul \notin Comptes
    /\ MaxJetons \in Nat /\ MaxGestes \in Nat

\* A place to go: a URL of one of the applications, with the token it carries.
Lieu(url, j) == [url |-> url, jeton |-> j]
Urls == {"nulle part", "front", "front?token", "front?action=logout",
         "to-symfony", "to-angular", "logout", "admin", "connexion"}
NullePart == Lieu("nulle part", 0)

\* A request: GET /user/me, POST /login_check or any other call to the API.  Of
\* two that are alike the second might as well be sent once the server has dealt
\* with the first, so a set tells them apart.
Requete(type, j, compte) ==
    [type |-> type, jeton |-> j, compte |-> compte, etat |-> "partie"]

Init ==
    /\ jetons = <<>> /\ expires = {} /\ jeton = 0 /\ session = Nul
    /\ page = [t \in Onglets |-> "front"]
    /\ destination = [t \in Onglets |-> NullePart]
    /\ isLoggedIn = [t \in Onglets |-> FALSE]
    /\ userEmail = [t \in Onglets |-> Nul]
    /\ userRoles = [t \in Onglets |-> Nul]
    /\ enVol = [t \in Onglets |-> {}]
    /\ gestes = 0 /\ actifs = {} /\ ecarts = {}

Aller(t, lieu) == destination' = [destination EXCEPT ![t] = lieu]

Geste ==
    /\ gestes < MaxGestes
    /\ gestes' = gestes + 1

Valide(j) == j \in 1 .. Len(jetons) /\ j \notin expires

-----------------------------------------------------------------------------
(* AuthService *)

\* Mutant: the token stays in localStorage.
LocalLogout_gardeJeton(t) ==
    /\ jeton' = jeton
    /\ isLoggedIn' = [isLoggedIn EXCEPT ![t] = FALSE]
    /\ userEmail' = [userEmail EXCEPT ![t] = Nul]
    /\ userRoles' = [userRoles EXCEPT ![t] = Nul]

LocalLogout(t) ==
    /\ jeton' = 0
    /\ isLoggedIn' = [isLoggedIn EXCEPT ![t] = FALSE]
    /\ userEmail' = [userEmail EXCEPT ![t] = Nul]
    /\ userRoles' = [userRoles EXCEPT ![t] = Nul]

\* The roles come from the token at once, the address with /user/me.
HandleLoginSuccess(t, j, requetes) ==
    /\ jeton' = j
    /\ isLoggedIn' = [isLoggedIn EXCEPT ![t] = TRUE]
    /\ userRoles' = [userRoles EXCEPT ![t] = jetons[j]]
    /\ enVol' = [enVol EXCEPT ![t] = requetes \cup {Requete("me", j, Nul)}]

-----------------------------------------------------------------------------
(* The front page is loaded: AuthService's constructor reads localStorage,   *)
(* then App's constructor reads the URL.                                     *)

\* Mutant: a token found in localStorage is used without being shown.
ConnecteAuChargement_non == FALSE

ConnecteAuChargement == jeton # 0

\* Mutant: the constructor asks for the account without a token as well.
RequetesAuChargement_toujours == {Requete("me", jeton, Nul)}

\* What the constructor of AuthService sends.
RequetesAuChargement ==
    IF jeton # 0 THEN {Requete("me", jeton, Nul)} ELSE {}

ChargerFront(t) ==
    LET d == destination[t]
    IN  /\ d.url \in {"front", "front?token", "front?action=logout"}
        /\ page' = [page EXCEPT ![t] = "front"]
        /\ Aller(t, NullePart)
        /\ \/ /\ d.url = "front"
              /\ isLoggedIn' = [isLoggedIn EXCEPT ![t] = ConnecteAuChargement]
              /\ userEmail' = [userEmail EXCEPT ![t] = Nul]
              /\ userRoles' = [userRoles EXCEPT ![t] = Nul]
              /\ enVol' = [enVol EXCEPT ![t] = RequetesAuChargement]
              /\ UNCHANGED jeton
           \/ /\ d.url = "front?token"
              /\ HandleLoginSuccess(t, d.jeton, RequetesAuChargement)
              /\ userEmail' = [userEmail EXCEPT ![t] = Nul]
           \/ /\ d.url = "front?action=logout"
              /\ LocalLogout(t)
              /\ enVol' = [enVol EXCEPT ![t] = RequetesAuChargement]
        /\ UNCHANGED <<serveur, gestes>>

-----------------------------------------------------------------------------
(* The server answers, the page receives. *)

Repondu(t, q, etat, j) ==
    enVol' = [enVol EXCEPT ![t] = (@ \ {q}) \cup
                  {[q EXCEPT !.etat = etat, !.jeton = j]}]

\* A login succeeds, with a new token, or the password is wrong.
ServirLogin(t, q) ==
    /\ q.etat = "partie" /\ q.type = "login"
    /\ \/ /\ Len(jetons) < MaxJetons
          /\ jetons' = Append(jetons, q.compte)
          /\ Repondu(t, q, "ok", Len(jetons) + 1)
       \/ /\ Repondu(t, q, "401", 0)
          /\ UNCHANGED jetons
    /\ UNCHANGED <<expires, jeton, session, page, destination, signaux, gestes>>

\* A token that is not valid is refused, even where none is needed; a call
\* without a token is refused when it needs an account.
Servir(t, q) ==
    /\ q.etat = "partie" /\ q.type # "login"
    /\ \/ /\ Valide(q.jeton) \/ q.jeton = 0
          /\ Repondu(t, q, "ok", q.jeton)
       \/ /\ ~Valide(q.jeton)
          /\ Repondu(t, q, "401", q.jeton)
    /\ UNCHANGED <<serveur, jeton, page, destination, signaux, gestes>>

Sans(t, q) == enVol' = [enVol EXCEPT ![t] = @ \ {q}]

\* loadUserInfo: next.
RecevoirMe(t, q) ==
    /\ q.type = "me" /\ q.etat = "ok"
    /\ userEmail' = [userEmail EXCEPT ![t] = jetons[q.jeton]]
    /\ userRoles' = [userRoles EXCEPT ![t] = jetons[q.jeton]]
    /\ Sans(t, q)
    /\ UNCHANGED <<serveur, jeton, page, destination, isLoggedIn, gestes>>

\* The interceptor on 401 removes the token, then loadUserInfo: error, on any
\* failure, calls logout().
RecevoirMeErreur(t, q) ==
    /\ q.type = "me"
    /\ LocalLogout(t)
    /\ Aller(t, Lieu("logout", 0))
    /\ Sans(t, q)
    /\ UNCHANGED <<serveur, page, gestes>>

\* Any other call: the component shows its data, or its error; on 401 the
\* interceptor removes the token and shows the login form, the signals stay.
RecevoirAutre(t, q) ==
    /\ q.type = "autre" /\ q.etat # "partie"
    /\ jeton' = IF q.etat = "401" THEN 0 ELSE jeton
    /\ Sans(t, q)
    /\ UNCHANGED <<serveur, page, destination, signaux, gestes>>

\* Login.onSubmit: next.
RecevoirLogin(t, q) ==
    /\ q.type = "login" /\ q.etat = "ok"
    /\ HandleLoginSuccess(t, q.jeton, enVol[t] \ {q})
    /\ Aller(t, Lieu("to-symfony", q.jeton))
    /\ UNCHANGED <<serveur, page, userEmail, gestes>>

\* A wrong password, or a failure of the network: a message at most.
RecevoirErreur(t, q) ==
    /\ q.type # "me"
    /\ Sans(t, q)
    /\ UNCHANGED <<serveur, jeton, page, destination, signaux, gestes>>

-----------------------------------------------------------------------------
(* Symfony: each redirection is a step. *)

\* The tab leaves the page it showed, and its requests are dropped.
Quitter(t, nouvelle) ==
    /\ page' = [page EXCEPT ![t] = nouvelle]
    /\ enVol' = [enVol EXCEPT ![t] = {}]
    /\ UNCHANGED <<jeton, signaux, gestes>>

\* Mutant: a session that is already open is kept.
SessionOuverte_gardee(j) == IF session = Nul THEN jetons[j] ELSE session

\* $security->login: the session becomes that of the token's account.
SessionOuverte(j) == jetons[j]

\* SsoController::toSymfony
ToSymfony(t) ==
    LET d == destination[t]
    IN  /\ d.url = "to-symfony"
        /\ IF Valide(d.jeton)
           THEN /\ session' = SessionOuverte(d.jeton)
                /\ Aller(t, Lieu(IF jetons[d.jeton] \in Biblios THEN "admin"
                                                                ELSE "front", 0))
                /\ Quitter(t, "redirection")
           ELSE /\ Aller(t, NullePart)            \* dd('Erreur SSO : ...')
                /\ Quitter(t, "erreur")
                /\ UNCHANGED session
        /\ UNCHANGED <<jetons, expires>>

\* SsoController::toAngular
ToAngular(t) ==
    /\ destination[t].url = "to-angular"
    /\ IF session # Nul
       THEN /\ Len(jetons) < MaxJetons
            /\ jetons' = Append(jetons, session)
            /\ Aller(t, Lieu("front?token", Len(jetons) + 1))
       ELSE /\ Aller(t, Lieu("front", 0))
            /\ UNCHANGED jetons
    /\ Quitter(t, "redirection")
    /\ UNCHANGED <<expires, session>>

\* Mutant: the session is left open.
FinSession_ouverte == session' = session

FinSession == session' = Nul

\* The firewall's logout, then SsoController::logoutRedirect.
Logout(t) ==
    /\ destination[t].url = "logout"
    /\ FinSession
    /\ Aller(t, Lieu("front?action=logout", 0))
    /\ Quitter(t, "redirection")
    /\ UNCHANGED <<jetons, expires>>

\* DashboardController::index; without a session the firewall asks for a login.
Admin(t) ==
    /\ destination[t].url = "admin"
    /\ \/ /\ session = Nul
          /\ Aller(t, NullePart) /\ Quitter(t, "connexion")
       \/ /\ session \in Biblios
          /\ Aller(t, NullePart) /\ Quitter(t, "admin")
       \/ /\ session \in Comptes \ Biblios
          /\ Aller(t, Lieu("to-angular", 0)) /\ Quitter(t, "redirection")
    /\ UNCHANGED serveur

-----------------------------------------------------------------------------
(* The person. *)

\* The front's login form.
OnSubmit(t) == \E c \in Comptes :
    /\ page[t] = "front"
    /\ Geste
    /\ enVol' = [enVol EXCEPT ![t] = @ \cup {Requete("login", 0, c)}]
    /\ UNCHANGED <<serveur, jeton, page, destination, signaux>>

\* Symfony's login form: AdminAuthenticator opens the session.
ConnexionAdmin(t) == \E c \in Comptes :
    /\ page[t] = "connexion"
    /\ Geste
    /\ session' = c
    /\ Aller(t, Lieu("admin", 0))
    /\ UNCHANGED <<jetons, expires, jeton, page, signaux, enVol>>

\* Any page of the front that calls the API.
Parcourir(t) ==
    /\ page[t] = "front"
    /\ Geste
    /\ enVol' = [enVol EXCEPT ![t] = @ \cup {Requete("autre", jeton, Nul)}]
    /\ UNCHANGED <<serveur, jeton, page, destination, signaux>>

\* goToAdmin
GoToAdmin(t) ==
    /\ page[t] = "front" /\ jeton # 0
    /\ Geste
    /\ Aller(t, Lieu("to-symfony", jeton))
    /\ UNCHANGED <<serveur, jeton, page, signaux, enVol>>

\* The front's button: AuthService.logout.
Deconnecter(t) ==
    /\ page[t] = "front" /\ isLoggedIn[t]
    /\ Geste
    /\ LocalLogout(t)
    /\ Aller(t, Lieu("logout", 0))
    /\ UNCHANGED <<serveur, page, enVol>>

Suivre(t, u) ==
    /\ Geste
    /\ Aller(t, Lieu(u, 0))
    /\ UNCHANGED <<serveur, jeton, page, signaux, enVol>>

\* The back office's links, or the front's address, reloaded or typed by hand.
Ouvrir(t) == \E u \in {"front", "to-angular", "logout"} :
    /\ u \in {"to-angular", "logout"} => page[t] = "admin"
    /\ Suivre(t, u)

\* The back office's address.
OuvrirAdmin(t) == Suivre(t, "admin")

\* An hour passes for a token, or the session is forgotten.
Expirer ==
    /\ Geste
    /\ \/ /\ \E j \in 1 .. Len(jetons) \ expires : expires' = expires \cup {j}
          /\ UNCHANGED session
       \/ /\ session # Nul /\ session' = Nul
          /\ UNCHANGED expires
    /\ UNCHANGED <<jetons, jeton, page, destination, signaux, enVol, historique>>

-----------------------------------------------------------------------------
Recevoir(t, q) ==
    \/ RecevoirMe(t, q) \/ RecevoirMeErreur(t, q)
    \/ RecevoirAutre(t, q) \/ RecevoirLogin(t, q) \/ RecevoirErreur(t, q)

Requetes(t) ==
    /\ \E q \in enVol[t] :
        ServirLogin(t, q) \/ Servir(t, q) \/ Recevoir(t, q)
    /\ UNCHANGED historique

Navigation(t) ==
    /\ \/ ChargerFront(t) \/ ToSymfony(t) \/ ToAngular(t) \/ Logout(t) \/ Admin(t)
    /\ UNCHANGED historique

Hate(t) == IF destination[t] = NullePart THEN {} ELSE {"hate"}

Personne(t) ==
    /\ actifs' = actifs \cup {t}
    /\ \/ /\ \/ OnSubmit(t) \/ Parcourir(t) \/ GoToAdmin(t) \/ Deconnecter(t)
             \/ Ouvrir(t)
          /\ ecarts' = ecarts \cup Hate(t)
       \/ /\ ConnexionAdmin(t) \/ OuvrirAdmin(t)
          /\ ecarts' = ecarts \cup Hate(t) \cup {"admin"}

Next ==
    \/ \E t \in Onglets : Requetes(t) \/ Navigation(t) \/ Personne(t)
    \/ Expirer

Spec == Init /\ [][Next]_vars

\* The server answers, the browser delivers and follows the redirections;
\* nothing is asked of the person, of the clock or of the network's quality.
FairSpec == Spec /\ \A t \in Onglets :
    WF_vars(Requetes(t)) /\ WF_vars(Navigation(t))

-----------------------------------------------------------------------------
(* Properties. *)

Calme == \A t \in Onglets : destination[t] = NullePart /\ enVol[t] = {}

Pages == {"front", "redirection", "erreur", "connexion", "admin"}
Lieux == [url : Urls, jeton : 0 .. Len(jetons)]
Envois == [type : {"me", "login", "autre"}, jeton : 0 .. Len(jetons),
           compte : Comptes \cup {Nul}, etat : {"partie", "ok", "401"}]

TypeOK ==
    /\ jetons \in Seq(Comptes)
    /\ jeton \in 0 .. Len(jetons) /\ expires \subseteq 1 .. Len(jetons)
    /\ session \in Comptes \cup {Nul}
    /\ page \in [Onglets -> Pages]
    /\ destination \in [Onglets -> Lieux]
    /\ isLoggedIn \in [Onglets -> BOOLEAN]
    /\ userEmail \in [Onglets -> Comptes \cup {Nul}]
    /\ userRoles \in [Onglets -> Comptes \cup {Nul}]
    /\ enVol \in [Onglets -> SUBSET Envois]
    /\ gestes \in Nat

\* Requests are those of a front page; /user/me, an accepted login and the bridge
\* always carry a token.
InvJetons == \A t \in Onglets :
    /\ destination[t].url \in {"to-symfony", "front?token"}
           => destination[t].jeton # 0
    /\ \A q \in enVol[t] :
        /\ page[t] = "front"
        /\ q.type = "me" => q.jeton # 0
        /\ q.type = "login" => /\ q.compte \in Comptes
                               /\ q.etat = "ok" => q.jeton # 0

\* The types, and the tokens: what the proofs rest on.
Inv == TypeOK /\ InvJetons

\* The redirections between the two applications come to an end, whatever
\* expires and whatever fails: no page sends the browser round for ever
\* (loadUserInfo, logout, toSymfony, toAngular, logoutRedirect).
PasDeBoucle == <>[]Calme

\* To someone who uses one tab, a token in localStorage is always shown as a login
\* by the front page (the constructor of AuthService, handleLoginSuccess,
\* localLogout), whatever expires or fails.
JetonVisible == \A t \in Onglets :
    actifs \subseteq {t} /\ page[t] = "front" /\ jeton # 0 => isLoggedIn[t]

\* For someone who uses one tab and the front's login form only, and lets the
\* bridge finish, the token and the session that are there when nothing is under
\* way belong to the same account (onSubmit, toSymfony, toAngular), unless the
\* bridge has failed.
MemeCompte == ecarts = {} => \A t \in Onglets :
    /\ actifs \subseteq {t} /\ Calme /\ page[t] # "erreur"
    /\ jeton # 0 /\ session # Nul
    => jetons[jeton] = session

\* Whoever uses one tab and comes back from logging out, from the front or from
\* the back office, has neither token nor session left (logout, logoutRedirect).
DeconnexionComplete ==
    [][\A t \in Onglets :
           /\ actifs \subseteq {t}
           /\ destination[t].url = "front?action=logout" /\ ChargerFront(t)
           => jeton' = 0 /\ session' = Nul /\ ~isLoggedIn'[t]]_vars
=============================================================================
