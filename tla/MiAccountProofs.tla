--------------------------- MODULE MiAccountProofs ---------------------------
(***************************************************************************)
(* What MiAccount keeps for any number of operations, of credentials and   *)
(* of failed logins.                                                       *)
(***************************************************************************)
EXTENDS MiAccount, TLAPS

\* An AuthManager a that fits the configuration c: its services are no newer
\* than its account, its account no newer than the credentials, and its status
\* is honest wherever the console shows it.
Fits(a, c) ==
  /\ a \in AuthType
  /\ a.services <= a.account /\ a.account <= c.ver
  /\ a.logged => a.services # 0
  /\ a.status = "expired" => ~a.logged
  /\ c.kind # "none" /\ a.status = "normal" => a.logged

\* No account of b is older than that of a.
Newer(a, b) == a.services <= b.services /\ a.account <= b.account

\* Who logs in finds an account at the end, and who asks has had a service.
OpInv(q, a) ==
  /\ q.at = "login" => a.account # 0
  /\ q.at = "asks" => a.services # 0

AccountInv ==
  /\ TypeOK /\ Fits(auth, cfg)
  /\ \A o \in Ops : OpInv(op[o], auth)

----------------------------------------------------------------------------
(* The updates of the AuthManager. *)

LEMMA NewerKeepsOp ==
  ASSUME NEW a \in AuthType, NEW b \in AuthType, Newer(a, b), NEW q, OpInv(q, a)
  PROVE  OpInv(q, b)
  BY DEF Newer, OpInv, AuthType, Versions

LEMMA LoginBeginsFits ==
  ASSUME cfg \in CfgType, NEW a, Fits(a, cfg)
  PROVE  /\ Fits(LoginBegins(a), cfg) /\ Newer(a, LoginBegins(a))
         /\ cfg.kind = "password" => LoginBegins(a).account # 0
  <1>. a \in AuthType /\ cfg.ver \in Versions \ {0} /\ cfg.kind \in {"none", "cookie", "password"}
    BY DEF Fits, CfgType
  <1>. /\ a.services \in Nat /\ a.account \in Nat /\ cfg.ver \in Nat /\ cfg.ver # 0
       /\ a.services <= a.account /\ a.account <= cfg.ver
    BY DEF Fits, AuthType, Versions
  <1>1. CASE cfg.kind = "none"
    <2>1. LoginBegins(a) = [a EXCEPT !.logged = FALSE, !.status = "not_configured"]
      BY <1>1 DEF LoginBegins
    <2>2. /\ LoginBegins(a) \in AuthType /\ ~LoginBegins(a).logged
          /\ LoginBegins(a).services = a.services /\ LoginBegins(a).account = a.account
          /\ LoginBegins(a).status = "not_configured"
      BY <2>1 DEF AuthType
    <2>. QED BY <1>1, <2>2 DEF Fits, Newer
  <1>2. CASE cfg.kind = "cookie"
    <2>1. LoginBegins(a) = [account |-> cfg.ver, services |-> cfg.ver,
                            logged |-> TRUE, status |-> "unknown"]
      BY <1>2 DEF LoginBegins
    <2>. QED BY <1>2, <2>1 DEF Fits, Newer, AuthType, Errors
  <1>3. CASE cfg.kind = "password"
    <2>1. LoginBegins(a) = [a EXCEPT !.account = cfg.ver]
      BY <1>3 DEF LoginBegins
    <2>. QED BY <1>3, <2>1 DEF Fits, Newer, AuthType
  <1>. QED BY <1>1, <1>2, <1>3

LEMMA InvalidFits ==
  ASSUME NEW a, NEW c \in CfgType, NEW d \in CfgType, Fits(a, c), c.ver <= d.ver
  PROVE  Fits(Invalid(a, d), d) /\ Newer(a, Invalid(a, d))
  <1>. /\ a \in AuthType /\ a.services \in Nat /\ a.account \in Nat
       /\ c.ver \in Nat /\ d.ver \in Nat
    BY DEF Fits, AuthType, CfgType, Versions
  <1>1. /\ Invalid(a, d) \in AuthType /\ ~Invalid(a, d).logged
        /\ Invalid(a, d).services = a.services /\ Invalid(a, d).account = a.account
        /\ d.kind # "none" => Invalid(a, d).status = "unknown"
    BY DEF Invalid, AuthType, Errors
  <1>. QED BY <1>1 DEF Fits, Newer

LEMMA MarkedFits ==
  ASSUME NEW a, NEW c, Fits(a, c), a.services # 0
  PROVE  Fits(Marked(a), c) /\ Newer(a, Marked(a))
  <1>. a \in AuthType /\ a.services \in Nat /\ a.account \in Nat
    BY DEF Fits, AuthType, Versions
  <1>1. /\ Marked(a) \in AuthType /\ Marked(a).logged /\ Marked(a).status = "normal"
        /\ Marked(a).services = a.services /\ Marked(a).account = a.account
    BY DEF Marked, AuthType
  <1>. QED BY <1>1 DEF Fits, Newer

LEMMA MarkedErrorFits ==
  ASSUME NEW a, NEW c, Fits(a, c), NEW e \in Errors
  PROVE  Fits(MarkedError(a, e), c) /\ Newer(a, MarkedError(a, e))
  <1>. a \in AuthType /\ a.services \in Nat /\ a.account \in Nat
    BY DEF Fits, AuthType, Versions
  <1>1. /\ MarkedError(a, e) \in AuthType /\ MarkedError(a, e).status = e
        /\ MarkedError(a, e).logged => a.logged /\ e # "expired"
        /\ MarkedError(a, e).services = a.services /\ MarkedError(a, e).account = a.account
    BY DEF MarkedError, AuthType
  <1>. QED BY <1>1 DEF Fits, Newer, Errors

----------------------------------------------------------------------------
(* The parts of an operation. *)

LEMMA CountsType ==
  ASSUME TypeOK, Counts
  PROVE  failures' \in 0..(Threshold - 1) /\ restart' \in BOOLEAN
  BY AccountAssumption DEF TypeOK, Counts

\* An operation and the AuthManager have changed together.
LEMMA OperationKeeps ==
  ASSUME AccountInv, NEW o \in Ops, NEW q \in OpType, Becomes(o, q),
         Fits(auth', cfg), Newer(auth, auth'), OpInv(q, auth'), UNCHANGED cfg,
         failures' \in 0..(Threshold - 1), restart' \in BOOLEAN
  PROVE  AccountInv' /\ Newer(auth, auth')
  <1>1. \A p \in Ops : OpInv(op'[p], auth')
    BY NewerKeepsOp DEF AccountInv, TypeOK, Becomes, Fits
  <1>2. TypeOK'
    BY DEF AccountInv, TypeOK, Becomes, Fits
  <1>. QED BY <1>1, <1>2 DEF AccountInv

LEMMA RetriedType ==
  ASSUME NEW q \in OpType
  PROVE  \E n \in OpType : /\ n.at \in {"idle", "sleeps"}
                           /\ \A o \in Ops : Retried(o, q) <=> Becomes(o, n)
  <1>1. Idle \in OpType /\ Idle.at = "idle"
    BY AccountAssumption DEF Idle, OpType, Versions
  <1>2. [q EXCEPT !.at = "sleeps"] \in OpType /\ [q EXCEPT !.at = "sleeps"].at = "sleeps"
    BY DEF OpType
  <1>3. CASE q.try = 1
    BY <1>2, <1>3 DEF Retried
  <1>4. CASE q.try # 1
    BY <1>1, <1>4 DEF Retried
  <1>. QED BY <1>3, <1>4

LEMMA ProceedsKeeps ==
  ASSUME AccountInv, NEW o \in Ops, NEW q \in OpType, NEW a, Fits(a, cfg), Newer(auth, a),
         Proceeds(o, q, a), UNCHANGED cfg
  PROVE  AccountInv' /\ Newer(auth, auth')
  <1>. /\ a \in AuthType /\ auth \in AuthType
       /\ failures \in 0..(Threshold - 1) /\ restart \in BOOLEAN
    BY DEF AccountInv, TypeOK, Fits
  <1>1. Idle \in OpType /\ Idle.at = "idle"
    BY AccountAssumption DEF Idle, OpType, Versions
  <1>2. CASE q.kind = "devices" /\ ~a.logged
    <2>1. Becomes(o, Idle) /\ auth' = a /\ UNCHANGED <<failures, restart>>
      BY <1>2 DEF Proceeds
    <2>2. OpInv(Idle, auth')
      BY <1>1 DEF OpInv
    <2>. QED BY <1>1, <2>1, <2>2, OperationKeeps
  <1>3. CASE ~(q.kind = "devices" /\ ~a.logged) /\ a.services # 0
    <2>. DEFINE n == [q EXCEPT !.at = "asks", !.uses = a.services]
    <2>1. Becomes(o, n) /\ auth' = a /\ UNCHANGED <<failures, restart>>
      BY <1>3 DEF Proceeds
    <2>2. n \in OpType /\ n.at = "asks"
      BY DEF OpType, AuthType
    <2>3. OpInv(n, auth')
      BY <1>3, <2>1, <2>2 DEF OpInv
    <2>. HIDE DEF n
    <2>. QED BY <2>1, <2>2, <2>3, OperationKeeps
  <1>4. CASE ~(q.kind = "devices" /\ ~a.logged) /\ a.services = 0
    <2>1. PICK n \in OpType : n.at \in {"idle", "sleeps"} /\ Becomes(o, n)
      BY <1>4, RetriedType DEF Proceeds
    <2>2. OpInv(n, auth')
      BY <2>1 DEF OpInv
    <2>3. CASE q.kind = "command"
      <3>1. auth' = MarkedError(a, "service_unavailable") /\ Counts
        BY <1>4, <2>3 DEF Proceeds
      <3>2. Fits(auth', cfg) /\ Newer(a, auth')
        BY <3>1, MarkedErrorFits DEF Errors
      <3>3. Newer(auth, auth')
        BY <3>2 DEF Newer, AuthType, Versions, Fits
      <3>. QED BY <2>1, <2>2, <3>1, <3>2, <3>3, CountsType, OperationKeeps DEF AccountInv
    <2>4. CASE q.kind # "command"
      <3>1. auth' = a /\ UNCHANGED <<failures, restart>>
        BY <1>4, <2>4 DEF Proceeds
      <3>. QED BY <2>1, <2>2, <3>1, OperationKeeps
    <2>. QED BY <2>3, <2>4
  <1>. QED BY <1>2, <1>3, <1>4

LEMMA LogsInKeeps ==
  ASSUME AccountInv, NEW o \in Ops, NEW q \in OpType, NEW a, Fits(a, cfg), Newer(auth, a),
         LogsIn(o, q, a), UNCHANGED cfg
  PROVE  AccountInv' /\ Newer(auth, auth')
  <1>. cfg \in CfgType /\ failures \in 0..(Threshold - 1) /\ restart \in BOOLEAN
    BY DEF AccountInv, TypeOK
  <1>1. Fits(LoginBegins(a), cfg) /\ Newer(a, LoginBegins(a))
    BY LoginBeginsFits
  <1>2. Newer(auth, LoginBegins(a))
    BY <1>1 DEF Newer, AccountInv, Fits, AuthType, Versions
  <1>3. CASE cfg.kind = "password"
    <2>. DEFINE n == [q EXCEPT !.at = "login", !.uses = cfg.ver]
    <2>1. Becomes(o, n) /\ auth' = LoginBegins(a) /\ UNCHANGED <<failures, restart>>
      BY <1>3 DEF LogsIn
    <2>2. n \in OpType /\ n.at = "login"
      BY DEF OpType, CfgType
    <2>3. OpInv(n, auth')
      BY <1>3, <2>1, <2>2, LoginBeginsFits DEF OpInv
    <2>. HIDE DEF n
    <2>. QED BY <1>1, <1>2, <2>1, <2>2, <2>3, OperationKeeps
  <1>4. CASE cfg.kind # "password"
    BY <1>1, <1>2, <1>4, ProceedsKeeps DEF LogsIn
  <1>. QED BY <1>3, <1>4

----------------------------------------------------------------------------
(* The actions. *)

LEMMA InitOK == Init => AccountInv
  <1>. SUFFICES ASSUME Init PROVE AccountInv
    OBVIOUS
  <1>1. cfg \in CfgType /\ cfg.ver = 1 /\ 0 \in Versions /\ 0 \in 0..(Threshold - 1)
    BY AccountAssumption DEF Init, Versions
  <1>2. auth \in AuthType /\ Fits(auth, cfg)
    BY <1>1, AccountAssumption DEF Init, Fits, AuthType, Versions
  <1>3. Idle \in OpType /\ Idle.at = "idle"
    BY <1>1 DEF Idle, OpType
  <1>. QED BY <1>1, <1>2, <1>3 DEF Init, AccountInv, TypeOK, OpInv

LEMMA EntersKeeps ==
  ASSUME AccountInv, NEW o \in Ops, NEW q \in OpType, Enters(o, q), UNCHANGED cfg
  PROVE  AccountInv' /\ Newer(auth, auth')
  <1>1. Fits(auth, cfg) /\ Newer(auth, auth)
    BY DEF AccountInv, Fits, Newer, AuthType, Versions
  <1>2. CASE auth.services = 0 \/ ~auth.logged
    BY <1>1, <1>2, LogsInKeeps DEF Enters
  <1>3. CASE ~(auth.services = 0 \/ ~auth.logged)
    BY <1>1, <1>3, ProceedsKeeps DEF Enters
  <1>. QED BY <1>2, <1>3

LEMMA LoginEndsKeeps ==
  ASSUME AccountInv, NEW o \in Ops, LoginEnds(o)
  PROVE  AccountInv' /\ Newer(auth, auth')
  <1>. /\ auth \in AuthType /\ auth.services \in Nat /\ auth.account \in Nat
       /\ auth.services <= auth.account /\ auth.account # 0 /\ op[o] \in OpType
       /\ Fits(auth, cfg) /\ UNCHANGED cfg
    BY DEF AccountInv, TypeOK, LoginEnds, Fits, OpInv, AuthType, Versions
  <1>1. CASE Proceeds(o, op[o], [Marked(auth) EXCEPT !.services = auth.account])
    <2>. DEFINE new == [Marked(auth) EXCEPT !.services = auth.account]
    <2>1. /\ new \in AuthType /\ new.logged /\ new.status = "normal"
          /\ new.services = auth.account /\ new.account = auth.account
      BY DEF Marked, AuthType
    <2>. HIDE DEF new
    <2>2. Fits(new, cfg) /\ Newer(auth, new)
      BY <2>1 DEF Fits, Newer
    <2>. QED BY <1>1, <2>2, ProceedsKeeps DEF new
  <1>2. ASSUME NEW e \in Errors,
               Proceeds(o, op[o], MarkedError([auth EXCEPT !.logged = FALSE], e))
        PROVE  AccountInv' /\ Newer(auth, auth')
    <2>. DEFINE new == MarkedError([auth EXCEPT !.logged = FALSE], e)
    <2>1. /\ new \in AuthType /\ ~new.logged /\ new.status = e
          /\ new.services = auth.services /\ new.account = auth.account
      BY DEF MarkedError, AuthType
    <2>. HIDE DEF new
    <2>2. Fits(new, cfg) /\ Newer(auth, new)
      BY <2>1 DEF Fits, Newer, Errors
    <2>. QED BY <1>2, <2>2, ProceedsKeeps DEF new
  <1>. QED BY <1>1, <1>2 DEF LoginEnds

LEMMA AnswerKeeps ==
  ASSUME AccountInv, NEW o \in Ops, Succeeds(o) \/ CommandFails(o) \/ StatusFails(o)
  PROVE  AccountInv' /\ Newer(auth, auth')
  <1>. /\ auth \in AuthType /\ op[o] \in OpType /\ Fits(auth, cfg) /\ UNCHANGED cfg
       /\ failures \in 0..(Threshold - 1) /\ restart \in BOOLEAN
    BY DEF AccountInv, TypeOK, Succeeds, CommandFails, StatusFails
  <1>1. CASE Succeeds(o)
    <2>1. Idle \in OpType /\ OpInv(Idle, auth')
      BY AccountAssumption DEF Idle, OpType, OpInv, Versions
    <2>2. auth.services # 0
      BY <1>1 DEF AccountInv, Succeeds, OpInv
    <2>3. Fits(auth', cfg) /\ Newer(auth, auth')
      BY <1>1, <2>2, MarkedFits DEF Succeeds
    <2>4. failures' \in 0..(Threshold - 1) /\ UNCHANGED restart
      BY <1>1, AccountAssumption DEF Succeeds
    <2>. QED BY <1>1, <2>1, <2>3, <2>4, OperationKeeps DEF Succeeds
  <1>2. CASE CommandFails(o)
    <2>1. PICK n \in OpType : n.at \in {"idle", "sleeps"} /\ Becomes(o, n)
      BY <1>2, RetriedType DEF CommandFails
    <2>2. OpInv(n, auth')
      BY <2>1 DEF OpInv
    <2>3. Fits(auth', cfg) /\ Newer(auth, auth')
      BY <1>2, MarkedErrorFits DEF CommandFails
    <2>. QED BY <1>2, <2>1, <2>2, <2>3, CountsType, OperationKeeps DEF CommandFails, AccountInv
  <1>3. CASE StatusFails(o)
    <2>1. PICK n \in OpType : n.at \in {"idle", "sleeps"} /\ Becomes(o, n)
      BY <1>3, RetriedType DEF StatusFails
    <2>2. OpInv(n, auth')
      BY <2>1 DEF OpInv
    <2>3. Fits(auth', cfg) /\ Newer(auth, auth')
      BY <1>3 DEF StatusFails, Newer, AuthType, Versions
    <2>. QED BY <1>3, <2>1, <2>2, <2>3, OperationKeeps DEF StatusFails
  <1>. QED BY <1>1, <1>2, <1>3

LEMMA DevicesFailKeeps ==
  ASSUME AccountInv, NEW o \in Ops, DevicesFail(o)
  PROVE  AccountInv' /\ Newer(auth, auth')
  <1>. /\ auth \in AuthType /\ op[o] \in OpType /\ Fits(auth, cfg) /\ cfg \in CfgType
       /\ failures \in 0..(Threshold - 1) /\ restart \in BOOLEAN /\ UNCHANGED cfg
    BY DEF AccountInv, TypeOK, DevicesFail
  <1>. PICK e \in Errors :
         LET a == MarkedError(auth, e) IN
         IF cfg.kind = "cookie" \/ op[o].try = 2
         THEN Becomes(o, Idle) /\ auth' = a /\ UNCHANGED <<failures, restart>>
         ELSE LogsIn(o, [op[o] EXCEPT !.try = 2], Invalid(a, cfg))
    BY DEF DevicesFail
  <1>. DEFINE a == MarkedError(auth, e)
  <1>1. Fits(a, cfg) /\ Newer(auth, a)
    BY MarkedErrorFits
  <1>2. CASE cfg.kind = "cookie" \/ op[o].try = 2
    <2>1. Idle \in OpType /\ OpInv(Idle, auth')
      BY AccountAssumption DEF Idle, OpType, OpInv, Versions
    <2>. QED BY <1>1, <1>2, <2>1, OperationKeeps
  <1>3. CASE ~(cfg.kind = "cookie" \/ op[o].try = 2)
    <2>. HIDE DEF a
    <2>1. cfg.ver <= cfg.ver
      BY DEF CfgType, Versions
    <2>2. Fits(Invalid(a, cfg), cfg) /\ Newer(a, Invalid(a, cfg))
      BY <1>1, <2>1, InvalidFits
    <2>3. Newer(auth, Invalid(a, cfg))
      BY <1>1, <2>2 DEF Newer, Fits, AuthType, Versions
    <2>4. [op[o] EXCEPT !.try = 2] \in OpType
      BY DEF OpType
    <2>. QED BY <1>3, <2>2, <2>3, <2>4, LogsInKeeps DEF a
  <1>. QED BY <1>2, <1>3

LEMMA SavesKeeps ==
  ASSUME AccountInv, Saves
  PROVE  AccountInv' /\ Newer(auth, auth')
  <1>. /\ cfg \in CfgType /\ cfg.ver \in Nat /\ Fits(auth, cfg) /\ auth \in AuthType
    BY DEF AccountInv, TypeOK, CfgType, Versions
  <1>1. cfg' \in CfgType /\ cfg'.ver = cfg.ver + 1 /\ auth' = Invalid(auth, cfg')
        /\ UNCHANGED <<op, failures, restart>>
    BY AccountAssumption DEF Saves, CfgType, Versions
  <1>2. Fits(auth', cfg') /\ Newer(auth, auth')
    BY <1>1, InvalidFits
  <1>3. \A o \in Ops : OpInv(op'[o], auth')
    BY <1>1, <1>2, NewerKeepsOp DEF AccountInv, Fits
  <1>. QED BY <1>1, <1>2, <1>3 DEF AccountInv, TypeOK, Fits

LEMMA NextKeeps ==
  ASSUME AccountInv, [Next]_vars
  PROVE  AccountInv' /\ auth'.services >= auth.services
  <1>1. AccountInv' /\ Newer(auth, auth')
    <2>1. CASE Saves
      BY <2>1, SavesKeeps
    <2>2. ASSUME NEW o \in Ops, Begins(o)
          PROVE  AccountInv' /\ Newer(auth, auth')
      <3>1. \A kind \in {"command", "status", "devices"} : [Idle EXCEPT !.kind = kind] \in OpType
        BY AccountAssumption DEF Idle, OpType, Versions
      <3>. QED BY <2>2, <3>1, EntersKeeps DEF Begins
    <2>3. ASSUME NEW o \in Ops, Resumes(o)
          PROVE  AccountInv' /\ Newer(auth, auth')
      <3>1. [op[o] EXCEPT !.try = 2] \in OpType
        BY DEF AccountInv, TypeOK, OpType
      <3>. QED BY <2>3, <3>1, EntersKeeps DEF Resumes
    <2>4. CASE UNCHANGED vars
      BY <2>4 DEF vars, AccountInv, TypeOK, Fits, Newer, AuthType, Versions
    <2>. QED
      BY <2>1, <2>2, <2>3, <2>4, LoginEndsKeeps, AnswerKeeps, DevicesFailKeeps DEF Next
  <1>2. auth.services \in Nat /\ auth'.services \in Nat
    BY <1>1 DEF AccountInv, TypeOK, AuthType, Versions
  <1>. QED BY <1>1, <1>2 DEF Newer

\* The inductive invariant.
LEMMA Invariance == Spec => []AccountInv
  <1>1. AccountInv /\ [Next]_vars => AccountInv'
    BY NextKeeps
  <1>. QED BY <1>1, InitOK, PTL DEF Spec

----------------------------------------------------------------------------
(* The theorems. *)

\* Every variable keeps its type.
THEOREM TypeCorrect == Spec => []TypeOK
  BY Invariance, PTL DEF AccountInv

\* The console is told what the next request will do.
THEOREM StatusAlwaysHonest == Spec => []StatusIsHonest
  <1>1. AccountInv => StatusIsHonest
    BY DEF AccountInv, Fits, StatusIsHonest, LoginStatus
  <1>. QED BY <1>1, Invariance, PTL

\* No login, however late it ends, brings back the services of an older account.
THEOREM ServicesNeverGoBack == Spec => ServicesNeverOlder
  <1>1. AccountInv /\ [Next]_vars => [auth'.services >= auth.services]_vars
    BY NextKeeps
  <1>. QED BY <1>1, Invariance, PTL DEF Spec, ServicesNeverOlder

============================================================================
