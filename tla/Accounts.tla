------------------------------ MODULE Accounts ------------------------------
(***************************************************************************)
(* Accounts and sessions (auth.py, main.py).  A request is checked by its  *)
(* dependency in a thread (get_current_user, get_admin_user), its handler  *)
(* runs on the loop afterwards, with the account as it was read then.      *)
(* The limiter is LoginLimiter's subject.                                  *)
(***************************************************************************)
EXTENDS FiniteSets

CONSTANTS Names, Seeded,      \* "admin", the account made at the first start
          Browsers, NoName,
          Passwords, Weak,    \* ADMIN_PASSWORD, if it is a weak one
          Short               \* passwords below MIN_PASSWORD_LENGTH

VARIABLES users,    \* the table
          session,  \* the user_id in each browser's cookie
          request,  \* an authenticated request on its way to its handler
          chose,    \* history: whoever was given the weak password by hand
          crossed   \* history: somebody deactivated while his request was under way used it

accountsVars == <<users, session, request, chose, crossed>>

-----------------------------------------------------------------------------
NoRequest == [kind |-> "none"]
Account(admin, pw, must) == [admin |-> admin, active |-> TRUE, pw |-> pw, must |-> must]

(* lifespan: seeds an empty table, and flags administrators that still use  *)
(* the weak password.                                                      *)
Started(table) ==
    LET seeded == IF table = << >> THEN [n \in {Seeded} |-> Account(TRUE, Weak, TRUE)] ELSE table
    IN [n \in DOMAIN seeded |->
           IF seeded[n].admin /\ seeded[n].pw = Weak THEN [seeded[n] EXCEPT !.must = TRUE]
           ELSE seeded[n]]

AccountsInit ==
    /\ users = Started(<< >>)
    /\ session = [b \in Browsers |-> NoName]
    /\ request = [b \in Browsers |-> NoRequest]
    /\ chose = {} /\ crossed = FALSE

Restart ==
    /\ users' = Started(users)
    /\ request' = [b \in Browsers |-> NoRequest]
    /\ UNCHANGED <<session, chose, crossed>>

-----------------------------------------------------------------------------
login_submit(b, n, password) ==
    /\ request[b] = NoRequest
    /\ n \in DOMAIN users /\ users[n].pw = password /\ users[n].active
    /\ session' = [session EXCEPT ![b] = n]
    /\ UNCHANGED <<users, request, chose, crossed>>

logout(b) ==
    /\ request[b] = NoRequest
    /\ session' = [session EXCEPT ![b] = NoName]
    /\ UNCHANGED <<users, request, chose, crossed>>

(* A stranger's request, or that of a deactivated account, ends in a login *)
(* page without a session.                                                 *)
IsTurnedAway(b) ==
    /\ request[b] = NoRequest
    /\ session[b] # NoName /\ ~users[session[b]].active
    /\ session' = [session EXCEPT ![b] = NoName]
    /\ UNCHANGED <<users, request, chose, crossed>>

(* A flagged account gets no further than the password form. *)
get_current_user(b, kind) ==
    /\ request[b] = NoRequest
    /\ session[b] # NoName /\ users[session[b]].active
    /\ users[session[b]].must => kind = "password"

Arrives(b, kind) ==
    LET n == session[b]
    IN /\ get_current_user(b, kind)
       /\ kind # "password" => users[n].admin       \* get_admin_user
       /\ request' = [request EXCEPT ![b] = [kind |-> kind, by |-> n, pw |-> users[n].pw]]
       /\ UNCHANGED <<users, session, chose, crossed>>

Handled(b, kind) ==
    /\ request[b].kind = kind
    /\ request' = [request EXCEPT ![b] = NoRequest]
    /\ UNCHANGED session

create_user(b, n, admin, password) ==
    /\ Handled(b, "create")
    /\ IF n \in DOMAIN users THEN UNCHANGED <<users, chose>>
       ELSE /\ users' = [m \in DOMAIN users \cup {n} |->
                          IF m = n THEN Account(admin, password, FALSE) ELSE users[m]]
            /\ chose' = chose \cup (IF password = Weak THEN {n} ELSE {})
    /\ UNCHANGED crossed

toggle_anyone(b, n) ==   \* mutant: administrators may deactivate themselves
    /\ Handled(b, "toggle")
    /\ n \in DOMAIN users
    /\ users' = [users EXCEPT ![n].active = ~@]
    /\ crossed' = (crossed \/ ~users[request[b].by].active)
    /\ UNCHANGED chose

toggle_user(b, n) ==
    /\ Handled(b, "toggle")
    /\ IF n \notin DOMAIN users \/ n = request[b].by
       THEN UNCHANGED <<users, crossed>>
       ELSE /\ users' = [users EXCEPT ![n].active = ~@]
            /\ crossed' = (crossed \/ ~users[request[b].by].active)
    /\ UNCHANGED chose

ChangesTo(b, password) ==
    LET n == request[b].by
    IN /\ users' = [users EXCEPT ![n].pw = password, ![n].must = FALSE]
       /\ chose' = IF password = Weak /\ users[n].pw # Weak THEN chose \cup {n} ELSE chose

(* Both passwords are held against the hash read with the request. *)
change_password_submit(b, current, new) ==
    /\ Handled(b, "password")
    /\ IF current = request[b].pw /\ new \notin Short /\ new # request[b].pw
       THEN ChangesTo(b, new) ELSE UNCHANGED <<users, chose>>
    /\ UNCHANGED crossed

-----------------------------------------------------------------------------
AccountsNext ==
    \/ \E b \in Browsers, n \in Names, p \in Passwords : login_submit(b, n, p)
    \/ \E b \in Browsers : logout(b) \/ IsTurnedAway(b)
    \/ \E b \in Browsers, kind \in {"create", "toggle", "password"} : Arrives(b, kind)
    \/ \E b \in Browsers, n \in Names, admin \in BOOLEAN, p \in Passwords : create_user(b, n, admin, p)
    \/ \E b \in Browsers, n \in Names : toggle_user(b, n)
    \/ \E b \in Browsers, old, new \in Passwords : change_password_submit(b, old, new)
    \/ Restart

AccountsSpec == AccountsInit /\ [][AccountsNext]_accountsVars

-----------------------------------------------------------------------------
(* Somebody can administrate the hub, unless an administrator was          *)
(* deactivated between the check of his own request and its handler: then  *)
(* two of them can deactivate each other, and no start seeds a new one.    *)
(* And however requests and restarts fall, an administrator on the         *)
(* password the hub was deployed with is held to changing it, unless       *)
(* somebody set that very password by hand.                                *)
AdminRemains ==
    /\ crossed \/ \E n \in DOMAIN users : users[n].admin /\ users[n].active
    /\ \A n \in DOMAIN users :
          users[n].admin /\ users[n].pw = Weak => users[n].must \/ n \in chose
=============================================================================
