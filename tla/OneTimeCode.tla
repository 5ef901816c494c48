---------------------------- MODULE OneTimeCode ----------------------------
(***************************************************************************)
(* Signing in with a one-time code: AuthService.requestOtp and verifyOtp   *)
(* over the OtpCode rows of one phone, and the throttle both pass through, *)
(* assertNotSpammy, which lives in the process.                            *)
(*                                                                         *)
(* A verification reads the newest live code and then writes to it, with   *)
(* no transaction around the two.  Whether the digits match is a choice of *)
(* the environment.  MaxCodes is the model's bound on the codes sent until *)
(* all are over, when their rows are forgotten; MaxAttempts and MaxRecent  *)
(* are OTP_MAX_ATTEMPTS and OTP_REQUESTS_PER_10MIN.  What a right code     *)
(* leads to is said by the module that extends this one.                   *)
(***************************************************************************)
EXTENDS Naturals, FiniteSets, Sequences

CONSTANTS MaxCodes, MaxAttempts, MaxRecent, Workers

ASSUME OneTimeCodeAssumption ==
  /\ MaxCodes \in Nat /\ MaxAttempts \in Nat \ {0} /\ MaxRecent \in Nat \ {0}
  /\ IsFiniteSet(Workers)

VARIABLES
  code,     \* the OtpCode rows, oldest first
  recent,   \* otpRecent of the phone: the code each entry sent, or 0
  req       \* the handler each worker is running, with what it has read

codeVars == <<code, recent>>

Codes == 1..MaxCodes
Idle == [op |-> "idle"]

\* logins counts the verifications a code passed; steady and apart are
\* history: "no" once the process restarted while the code was live, and
\* once two verifications of it overlapped.
Row == [state : {"unsent", "live", "consumed", "expired"}, attempts : Nat, logins : Nat,
        steady : {"yes", "no"}, apart : {"yes", "no"}]

Unsent == [state |-> "unsent", attempts |-> 0, logins |-> 0, steady |-> "yes", apart |-> "yes"]

CodeRequest == [op : {"verify"}, code : Codes, fresh : {"yes", "no"}]

CodeInit ==
  /\ code = [k \in Codes |-> Unsent]
  /\ recent = <<>>

CodeTypeOK ==
  /\ code \in [Codes -> Row]
  /\ recent \in Seq(0..MaxCodes) /\ Len(recent) <= MaxRecent

Live == {k \in Codes : code[k].state = "live"}

\* The code verifyOtp reads.
Newest(k) == k \in Live /\ \A l \in Live : l <= k

NotSpammy_RequestsOnly(entry) ==
  /\ entry # 0 => Len(recent) < MaxRecent
  /\ recent' = IF entry = 0 THEN recent ELSE Append(recent, entry)

\* assertNotSpammy counts the requests and the verifications alike.
NotSpammy(entry) ==
  /\ Len(recent) < MaxRecent
  /\ recent' = Append(recent, entry)

RequestOtp(k) ==
  /\ code[k].state = "unsent"
  /\ \A l \in 1..(k - 1) : code[l].state # "unsent"
  /\ NotSpammy(k)
  /\ code' = [code EXCEPT ![k].state = "live"]
  /\ UNCHANGED req

\* No live code, or too many attempts on the newest: only the throttle counts.
RefuseVerify ==
  /\ \A k \in Codes : Newest(k) => code[k].attempts >= MaxAttempts
  /\ NotSpammy(0)
  /\ UNCHANGED <<code, req>>

BeginVerify(w) ==
  /\ req[w] = Idle
  /\ \E k \in Codes :
       /\ Newest(k)
       /\ code[k].attempts < MaxAttempts
       /\ req' = [req EXCEPT ![w] = [op |-> "verify", code |-> k, fresh |-> "yes"]]
  /\ NotSpammy(0)
  /\ UNCHANGED code

WrongCode(w) ==
  /\ req[w].op = "verify"
  /\ code' = [code EXCEPT ![req[w].code].attempts = @ + 1]
  /\ req' = [req EXCEPT ![w] = Idle]
  /\ UNCHANGED recent

Consumed_Kept(k, fresh) ==
  [code[k] EXCEPT !.logins = @ + 1, !.apart = IF fresh = "yes" THEN @ ELSE "no"]

Consumed(k, fresh) ==
  [code[k] EXCEPT !.state = "consumed", !.logins = @ + 1,
                  !.apart = IF fresh = "yes" THEN @ ELSE "no"]

\* The row is marked consumed, whoever consumed it meanwhile.
RightCode(w, next) ==
  /\ req[w].op = "verify"
  /\ LET k == req[w].code IN
       /\ code' = [code EXCEPT ![k] = Consumed(k, req[w].fresh)]
       /\ req' = [x \in Workers |->
                    IF x = w THEN next
                    ELSE IF req[x].op = "verify" /\ req[x].code = k
                         THEN [req[x] EXCEPT !.fresh = "no"] ELSE req[x]]
  /\ UNCHANGED recent

\* OTP_TTL_SECONDS passes.
Expires(k) ==
  /\ code[k].state = "live"
  /\ code' = [code EXCEPT ![k].state = "expired"]
  /\ UNCHANGED <<recent, req>>

\* Ten minutes after an entry it is filtered out.  A code it sent is over by then:
\* OTP_TTL_SECONDS, which is configurable, is taken to be ten minutes at most (it is
\* five where nothing sets it).
LeaveWindow ==
  /\ recent # <<>>
  /\ Head(recent) \notin Live
  /\ recent' = Tail(recent)
  /\ UNCHANGED <<code, req>>

Verifying == {w \in Workers : req[w].op = "verify"}

\* No step of the program: rows nobody will read or write again.
ForgetRows ==
  /\ Live = {} /\ Verifying = {}
  /\ code' = [k \in Codes |-> Unsent]
  /\ recent' = [i \in 1..Len(recent) |-> 0]
  /\ UNCHANGED req

\* What a restart of the process does to the throttle.
Forget ==
  /\ recent' = <<>>
  /\ code' = [k \in Codes |->
                IF k \in Live THEN [code[k] EXCEPT !.steady = "no"] ELSE code[k]]

-----------------------------------------------------------------------------
(* Properties *)

\* Verifications that all read the count before any of them adds to it pass
\* the cap of verifyOtp: by as many as run at once, and no more.  In a process
\* that keeps running the throttle stops the guesses at a code first.
GuessesAreBounded ==
  \A k \in Codes :
     /\ code[k].attempts < MaxAttempts + Cardinality(Workers)
     /\ code[k].steady = "yes" => code[k].attempts + code[k].logins < MaxRecent

\* A code signs in once, unless two verifications of it overlapped.
CodeLogsInOnce ==
  \A k \in Codes : code[k].apart = "yes" => code[k].logins <= 1
=============================================================================
