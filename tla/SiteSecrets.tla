---------------------------- MODULE SiteSecrets -----------------------------
(***************************************************************************)
(* The passwords of a site while it is provisioned: ensureCredentials,     *)
(* which attempts at the job may run at the same time, and the steps of    *)
(* runProvision that hand the passwords on. An attempt that has lost its   *)
(* claim goes on until advance refuses it, so that it may do the step it   *)
(* is about to do.                                                         *)
(*                                                                         *)
(* Of the secrets that ensureCredentials draws alike, database_password    *)
(* stands for all four. The second rendering and start, for the route, and *)
(* those of the clean-up after a failure repeat RenderSite and ComposeUp   *)
(* with the same credentials and are left out.                             *)
(***************************************************************************)
EXTENDS Integers

CONSTANTS
    MaxAttemptNo,  \* max_attempts of the job
    Chosen,        \* the password that the visitor has chosen
    NoPassword     \* no row, no role, no file, no container, no administrator

ASSUME SecretsAssumption ==
    /\ MaxAttemptNo \in Nat \ {0}
    /\ {Chosen, NoPassword} \cap (1..MaxAttemptNo) = {} /\ Chosen # NoPassword

VARIABLES
    secret,     \* rows of site_secrets: database_password, bootstrap_admin_password
    placed,     \* where the passwords have gone
    attempt,    \* attempt[a]: the a-th execution of the job
    holder,     \* the attempt with the claim, 0 before the first
    completed   \* the job is completed

secretVars == <<secret, placed, attempt, holder, completed>>

Attempts == 1..MaxAttemptNo
Kinds == {"database", "bootstrap"}
Passwords == Attempts \cup {Chosen, NoPassword}  \* a: what attempt a has drawn

\* role: of the database; env: the file; stack: the running containers, which
\* were started with it; admin: of the application's first administrator.
Places == {"role", "env", "stack", "admin"}

\* at: the step it is about to do; has: the credentials it has got so far.
Execution == [at : {"idle", "read", "insert", "reread", "ensureDatabase", "renderSite",
                    "up", "status", "register", "login", "complete", "over"},
              has : [Kinds -> Passwords]]

SecretsInit ==
    /\ secret = [k \in Kinds |-> IF k = "bootstrap" THEN Chosen ELSE NoPassword]
    /\ placed = [p \in Places |-> NoPassword]
    /\ attempt = [a \in Attempts |-> [at |-> "idle", has |-> [k \in Kinds |-> NoPassword]]]
    /\ holder = 0
    /\ completed = FALSE

\* A pending job, a failed one that is retried, or one whose lease has run out.
ClaimProvision(a) ==
    /\ attempt[a].at = "idle" /\ a = holder + 1 /\ ~completed
    /\ holder' = a
    /\ attempt' = [attempt EXCEPT ![a].at = "read"]
    /\ UNCHANGED <<secret, placed, completed>>

\* A step fails, the process dies, or it notices that its claim is lost.
AttemptEnds(a) ==
    /\ attempt[a].at \notin {"idle", "over"}
    /\ attempt' = [attempt EXCEPT ![a].at = "over"]
    /\ UNCHANGED <<secret, placed, holder, completed>>

-----------------------------------------------------------------------------
(* ensureCredentials: three statements for each kind, in no transaction.   *)

\* The kind at work: bootstrap_admin_password is the last one.
Kind(a) == IF attempt[a].has["database"] = NoPassword THEN "database" ELSE "bootstrap"

Got(a, password) ==
    [at |-> CASE password = NoPassword -> "over"  \* an empty ciphertext cannot be opened
              [] Kind(a) = "database" -> "read"
              [] OTHER -> "ensureDatabase",
     has |-> [attempt[a].has EXCEPT ![Kind(a)] = password]]

ReadSecret(a) ==
    /\ attempt[a].at = "read"
    /\ attempt' = [attempt EXCEPT ![a] = IF secret[Kind(a)] = NoPassword
                                         THEN [@ EXCEPT !.at = "insert"]
                                         ELSE Got(a, secret[Kind(a)])]
    /\ UNCHANGED <<secret, placed, holder, completed>>

\* ON CONFLICT DO NOTHING
InsertSecret(a) ==
    /\ attempt[a].at = "insert"
    /\ secret' = [secret EXCEPT ![Kind(a)] = IF @ = NoPassword THEN a ELSE @]
    /\ attempt' = [attempt EXCEPT ![a].at = "reread"]
    /\ UNCHANGED <<placed, holder, completed>>

\* Mutant: the attempt goes on with the password that it has drawn.
RereadOwn(a) ==
    /\ attempt[a].at = "reread"
    /\ attempt' = [attempt EXCEPT ![a] = Got(a, a)]
    /\ UNCHANGED <<secret, placed, holder, completed>>

RereadSecret(a) ==
    /\ attempt[a].at = "reread"
    /\ attempt' = [attempt EXCEPT ![a] = Got(a, secret[Kind(a)])]
    /\ UNCHANGED <<secret, placed, holder, completed>>

-----------------------------------------------------------------------------
(* runProvision.                                                           *)

\* A step has been done; advance lets the holder of the claim go on to the next.
Proceed(a, next) ==
    attempt' = [attempt EXCEPT ![a].at = IF holder = a /\ ~completed THEN next ELSE "over"]

\* CREATE ROLE or ALTER ROLE
EnsureDatabase(a) ==
    /\ attempt[a].at = "ensureDatabase"
    /\ placed' = [placed EXCEPT !["role"] = attempt[a].has["database"]]
    /\ Proceed(a, "renderSite")
    /\ UNCHANGED <<secret, holder, completed>>

RenderSite(a) ==
    /\ attempt[a].at = "renderSite"
    /\ placed' = [placed EXCEPT !["env"] = attempt[a].has["database"]]
    /\ Proceed(a, "up")
    /\ UNCHANGED <<secret, holder, completed>>

ComposeUp(a) ==
    /\ attempt[a].at = "up"
    /\ placed' = [placed EXCEPT !["stack"] = placed["env"]]
    /\ Proceed(a, "status")
    /\ UNCHANGED <<secret, holder, completed>>

\* bootstrap asks whether the application, which has reached its database,
\* still wants its first administrator.
InstallStatus(a) ==
    /\ attempt[a].at = "status"
    /\ placed["stack"] = placed["role"]
    /\ attempt' = [attempt EXCEPT ![a].at = IF placed["admin"] = NoPassword
                                            THEN "register" ELSE "login"]
    /\ UNCHANGED <<secret, placed, holder, completed>>

\* Mutant: the secret is removed as soon as the administrator exists.
RegisterAndForget(a) ==
    /\ attempt[a].at = "register" /\ placed["admin"] = NoPassword
    /\ placed' = [placed EXCEPT !["admin"] = attempt[a].has["bootstrap"]]
    /\ secret' = [secret EXCEPT !["bootstrap"] = NoPassword]
    /\ Proceed(a, "complete")
    /\ UNCHANGED <<holder, completed>>

\* The application takes one first administrator only.
Register(a) ==
    /\ attempt[a].at = "register" /\ placed["admin"] = NoPassword
    /\ placed' = [placed EXCEPT !["admin"] = attempt[a].has["bootstrap"]]
    /\ Proceed(a, "complete")
    /\ UNCHANGED <<secret, holder, completed>>

Login(a) ==
    /\ attempt[a].at = "login" /\ placed["admin"] = attempt[a].has["bootstrap"]
    /\ Proceed(a, "complete")
    /\ UNCHANGED <<secret, placed, holder, completed>>

\* The closing transaction, which the holder alone gets through.
CompleteProvision(a) ==
    /\ attempt[a].at = "complete" /\ holder = a
    /\ completed' = TRUE
    /\ secret' = [secret EXCEPT !["bootstrap"] = NoPassword]
    /\ attempt' = [attempt EXCEPT ![a].at = "over"]
    /\ UNCHANGED <<placed, holder>>

SecretsNext ==
    \E a \in Attempts :
        \/ ClaimProvision(a) \/ AttemptEnds(a)
        \/ ReadSecret(a) \/ InsertSecret(a) \/ RereadSecret(a)
        \/ EnsureDatabase(a) \/ RenderSite(a) \/ ComposeUp(a)
        \/ InstallStatus(a) \/ Register(a) \/ Login(a) \/ CompleteProvision(a)

SecretsSpec == SecretsInit /\ [][SecretsNext]_secretVars

-----------------------------------------------------------------------------
SecretsTypeOK ==
    /\ secret \in [Kinds -> Passwords]
    /\ placed \in [Places -> Passwords]
    /\ attempt \in [Attempts -> Execution]
    /\ holder \in 0..MaxAttemptNo
    /\ completed \in BOOLEAN

\* The role of the database, the file and the containers have the password that
\* is stored, even if an attempt that was given up is still at work beside its
\* successor: no step of the one undoes a step of the other (ensureCredentials).
OnePassword ==
    \A p \in {"role", "env", "stack"} :
        placed[p] # NoPassword => placed[p] = secret["database"]

\* The administrator is the one the visitor has chosen, and an attempt after a
\* crash, wherever it was, can still log in as it (bootstrap, runProvision).
AdminCanLogIn ==
    placed["admin"] # NoPassword =>
        /\ placed["admin"] = Chosen
        /\ ~completed => secret["bootstrap"] = Chosen
=============================================================================
