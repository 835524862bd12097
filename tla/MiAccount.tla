----------------------------- MODULE MiAccount -----------------------------
(***************************************************************************)
(* The Xiaomi account and the calls of the speaker that need it            *)
(* (src/src/miairx/auth/manager.py, speaker/controller.py and              *)
(* speaker/retry.py): operations of the renderers, the health check and    *)
(* the console share one AuthManager in the event loop; each logs in where *)
(* it finds that nobody is, none holds a lock, and the credentials can be  *)
(* saved while they await the cloud.                                       *)
(*                                                                         *)
(* Credentials are numbered as they are saved; an account, and the         *)
(* services that are built on one, are named by the credentials it was     *)
(* made with.  Nothing in the program raises LoginError or                 *)
(* TokenExpiredError: with_login_retry sees every error as transient.      *)
(***************************************************************************)
EXTENDS Naturals

CONSTANTS
  Ops,          \* bound: operations that may be under way at once
  MaxSaves,     \* bound: credentials saved
  Threshold,    \* _LOGIN_FAILURE_RESTART_THRESHOLD
  AutoRestart   \* config.auto_restart

ASSUME AccountAssumption ==
  MaxSaves \in Nat \ {0} /\ Threshold \in Nat \ {0} /\ AutoRestart \in BOOLEAN

VARIABLES
  cfg,       \* the credentials in the configuration
  auth,      \* AuthManager: account, services (0 is None), _logged_in, status
  op,        \* where each operation is, its kind, its try and what it asks
  failures,  \* _consecutive_login_failures
  restart    \* a shutdown has been triggered

vars == <<cfg, auth, op, failures, restart>>

Versions == 0..MaxSaves
CfgType == [ver : Versions \ {0}, kind : {"none", "cookie", "password"}]
Errors == {"expired", "network_error", "service_unavailable"}
AuthType == [account : Versions, services : Versions, logged : BOOLEAN,
             status : Errors \cup {"normal", "unknown", "not_configured"}]

\* "command" is play_url, pause, stop and set_volume, "status" is get_status,
\* "devices" is get_device_list.
OpType == [at : {"idle", "login", "asks", "sleeps"},
           kind : {"command", "status", "devices"}, try : 1..2,
           uses : Versions]   \* the account behind its login or its request
Idle == [at |-> "idle", kind |-> "command", try |-> 1, uses |-> 0]

Init ==
  /\ cfg \in {c \in CfgType : c.ver = 1}
  /\ auth = [account |-> 0, services |-> 0, logged |-> FALSE,
             status |-> IF cfg.kind = "none" THEN "not_configured" ELSE "unknown"]
  /\ op = [o \in Ops |-> Idle]
  /\ failures = 0 /\ restart = FALSE

----------------------------------------------------------------------------
(* login() and the marks. *)

\* What login() does before it awaits, if it does: only with a password.
LoginBegins(a) ==
  CASE cfg.kind = "none" -> [a EXCEPT !.logged = FALSE, !.status = "not_configured"]
    [] cfg.kind = "cookie" -> [account |-> cfg.ver, services |-> cfg.ver,
                               logged |-> TRUE, status |-> "unknown"]
    [] cfg.kind = "password" -> [a EXCEPT !.account = cfg.ver]

\* invalidate_session.
Invalid(a, c) ==
  [a EXCEPT !.logged = FALSE, !.status = IF c.kind = "none" THEN @ ELSE "unknown"]

\* Mutant of MarkedError: the user is told, and stays logged in.
MarkedErrorOnly(a, e) == [a EXCEPT !.status = e]

\* mark_request_success and mark_request_error.
Marked(a) == [a EXCEPT !.logged = TRUE, !.status = "normal"]
MarkedError(a, e) == [a EXCEPT !.status = e, !.logged = @ /\ e # "expired"]

----------------------------------------------------------------------------
(* The operations. *)

Becomes(o, new) == op' = [op EXCEPT ![o] = new]

\* A command has failed: it counts, and one that reaches the threshold starts
\* the count anew.
Counts ==
  /\ LET reached == failures + 1 >= Threshold IN
     /\ failures' = IF reached THEN 0 ELSE failures + 1
     /\ restart' = (restart \/ (reached /\ AutoRestart))

\* A failed call is made once more after half a second.
Retried(o, q) ==
  Becomes(o, IF q.try = 1 THEN [q EXCEPT !.at = "sleeps"] ELSE Idle)

\* Operation q of o, with the account a, has gone through ensure_login: it
\* asks the cloud, or gives up without a service.
Proceeds(o, q, a) ==
  IF q.kind = "devices" /\ ~a.logged
  THEN Becomes(o, Idle) /\ auth' = a /\ UNCHANGED <<failures, restart>>
  ELSE IF a.services # 0
  THEN /\ Becomes(o, [q EXCEPT !.at = "asks", !.uses = a.services])
       /\ auth' = a /\ UNCHANGED <<failures, restart>>
  ELSE /\ Retried(o, q)
       /\ IF q.kind = "command"
          THEN auth' = MarkedError(a, "service_unavailable") /\ Counts
          ELSE auth' = a /\ UNCHANGED <<failures, restart>>

\* login() as part of q, from the account a.
LogsIn(o, q, a) ==
  IF cfg.kind = "password"
  THEN /\ Becomes(o, [q EXCEPT !.at = "login", !.uses = cfg.ver])
       /\ auth' = LoginBegins(a) /\ UNCHANGED <<failures, restart>>
  ELSE Proceeds(o, q, LoginBegins(a))

\* ensure_login.
Enters(o, q) ==
  IF auth.services = 0 \/ ~auth.logged THEN LogsIn(o, q, auth) ELSE Proceeds(o, q, auth)

Begins(o) ==
  /\ op[o].at = "idle"
  /\ \E kind \in {"command", "status", "devices"} :
       Enters(o, [Idle EXCEPT !.kind = kind])
  /\ UNCHANGED cfg

Resumes(o) ==
  /\ op[o].at = "sleeps"
  /\ Enters(o, [op[o] EXCEPT !.try = 2])
  /\ UNCHANGED cfg

\* Mutant of LoginEnds: the services are built on the account of this login.
LoginEndsOwn(o) ==
  /\ op[o].at = "login"
  /\ Proceeds(o, op[o], [Marked(auth) EXCEPT !.services = op[o].uses])
  /\ UNCHANGED cfg

\* The password has been tried.  The services are built on what the account
\* is by now, which a later login may have replaced.
LoginEnds(o) ==
  /\ op[o].at = "login"
  /\ \/ Proceeds(o, op[o], [Marked(auth) EXCEPT !.services = auth.account])
     \/ \E e \in Errors :
          Proceeds(o, op[o], MarkedError([auth EXCEPT !.logged = FALSE], e))
  /\ UNCHANGED cfg

\* Only a command starts the count anew.
Succeeds(o) ==
  /\ op[o].at = "asks"
  /\ auth' = Marked(auth)
  /\ failures' = IF op[o].kind = "command" THEN 0 ELSE failures
  /\ Becomes(o, Idle)
  /\ UNCHANGED <<cfg, restart>>

CommandFails(o) ==
  /\ op[o].at = "asks" /\ op[o].kind = "command"
  /\ \E e \in Errors : auth' = MarkedError(auth, e)
  /\ Counts /\ Retried(o, op[o])
  /\ UNCHANGED cfg

\* get_status marks no error: an expired token is not renewed for its sake.
StatusFails(o) ==
  /\ op[o].at = "asks" /\ op[o].kind = "status"
  /\ Retried(o, op[o])
  /\ UNCHANGED <<cfg, auth, failures, restart>>

\* The list is asked for once more after a new login, but not with a cookie.
DevicesFail(o) ==
  /\ op[o].at = "asks" /\ op[o].kind = "devices"
  /\ \E e \in Errors :
       LET a == MarkedError(auth, e) IN
       IF cfg.kind = "cookie" \/ op[o].try = 2
       THEN Becomes(o, Idle) /\ auth' = a /\ UNCHANGED <<failures, restart>>
       ELSE LogsIn(o, [op[o] EXCEPT !.try = 2], Invalid(a, cfg))
  /\ UNCHANGED cfg

----------------------------------------------------------------------------
(* The configuration. *)

\* handle_save_config and the first steps of reload_after_config_change; the
\* calls that the reload makes are operations like the others.
Saves ==
  /\ cfg.ver < MaxSaves
  /\ \E kind \in {"none", "cookie", "password"} :
       /\ cfg' = [ver |-> cfg.ver + 1, kind |-> kind]
       /\ auth' = Invalid(auth, cfg')
  /\ UNCHANGED <<op, failures, restart>>

Next ==
  \/ Saves
  \/ \E o \in Ops : \/ Begins(o) \/ Resumes(o) \/ LoginEnds(o) \/ Succeeds(o)
                    \/ CommandFails(o) \/ StatusFails(o) \/ DevicesFail(o)

Spec == Init /\ [][Next]_vars

----------------------------------------------------------------------------
TypeOK ==
  /\ cfg \in CfgType /\ auth \in AuthType /\ op \in [Ops -> OpType]
  /\ failures \in 0..(Threshold - 1) /\ restart \in BOOLEAN

\* login_status.
LoginStatus == IF cfg.kind = "none" THEN "not_configured" ELSE auth.status

\* What the console is told fits what the next request will do: an account
\* that is shown as normal is logged in, one that is shown as expired will
\* log in again, and whoever is logged in has the services that
\* get_device_list() goes on to use without looking.
StatusIsHonest ==
  /\ LoginStatus = "normal" => auth.logged
  /\ LoginStatus = "expired" => ~auth.logged
  /\ auth.logged => auth.services # 0

\* Logins overlap with one another and with a change of the credentials, and
\* end in any order; still the services are never replaced by services that
\* an older account is behind.
ServicesNeverOlder == [][auth'.services >= auth.services]_vars

=============================================================================
