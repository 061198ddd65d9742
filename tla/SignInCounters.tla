--------------------------- MODULE SignInCounters ---------------------------
(***************************************************************************)
(* The two counters auth-service keeps for an e-mail address: the failed   *)
(* logins of a window of time, which disable the account at a threshold,   *)
(* and the code of a password reset with the wrong attempts made on it.    *)
(* Each is a document that a request reads, and after an await writes back *)
(* whole; requests of one address interleave, die and take their time.     *)
(***************************************************************************)
EXTENDS Naturals, FiniteSets

CONSTANTS
  Calls,             \* requests; the code a reset generates bears the request's name
  LOCKOUT_THRESHOLD,
  WINDOW,            \* WINDOW_MS, in ticks of the clock
  MAX_ATTEMPTS,
  OTP_TTL,           \* OTP_TTL_MINUTES, in ticks
  MaxNow,            \* bound: the clock
  MaxBreaks          \* bound: rejected calls and deaths

ASSUME CountersAssumption ==
  /\ IsFiniteSet(Calls) /\ "none" \notin Calls
  /\ {LOCKOUT_THRESHOLD, WINDOW, MAX_ATTEMPTS, OTP_TTL} \subseteq Nat \ {0}
  /\ MaxNow \in Nat /\ MaxBreaks \in Nat

VARIABLES
  now,
  login,             \* the document of "loginAttempts"
  otp,               \* the document of "passwordResetOtps"
  enabled,           \* the Auth user of the address
  call,              \* of each request: operation, await, code, time and document read
  newest,            \* history: the reset whose code was stored last
  alone,             \* history: no two requests have been in flight together
  breaks

docs == <<login, otp, enabled>>
counters == <<now, docs, call, newest, alone, breaks>>

Times == 0 .. MaxNow
None == "none"

Login == [attempts : 0 .. Cardinality(Calls), windowStart : Times]
NoLogin == [attempts |-> 0, windowStart |-> 0]

Otp == [code : Calls \cup {None}, expiresAt : 0 .. (MaxNow + OTP_TTL), attempts : 0 .. MAX_ATTEMPTS]
NoOtp == [code |-> None, expiresAt |-> 0, attempts |-> 0]

Answers == {"counted", "stored", "unknown", "refused", "wrong", "right", "error"}

Call == [op : {"track", "reset", "verify"}, code : Calls, at : Times, end : Times,
         login : Login, otp : Otp,
         pc : {"new", "read", "save", "lock", "send", "drop", "consume"} \cup Answers]

Running(r) == call[r].pc \notin {"new"} \cup Answers

CountersInit ==
  /\ now = 0 /\ login = NoLogin /\ otp = NoOtp /\ enabled = TRUE
  /\ call = [r \in Calls |-> [op |-> "track", code |-> r, at |-> 0, end |-> 0,
                              login |-> NoLogin, otp |-> NoOtp, pc |-> "new"]]
  /\ newest = None /\ alone = TRUE /\ breaks = 0

Tick == now < MaxNow /\ now' = now + 1 /\ UNCHANGED <<docs, call, newest, alone, breaks>>

Await(r, pc) == call' = [call EXCEPT ![r].pc = pc]
End(r, answer) ==
  call' = [call EXCEPT ![r].pc = answer, ![r].end = IF call[r].op = "track" THEN now ELSE 0,
                       ![r].login = NoLogin]

\* A reset generates its code and the time it expires before anything is stored; a
\* verification brings a code that was generated, or its own name for one that was not.
Receive(r, op, code) ==
  /\ call[r].pc = "new"
  /\ code = r \/ (op = "verify" /\ call[code].op = "reset")
  /\ call' = [call EXCEPT ![r].op = op, ![r].code = code, ![r].at = IF op = "verify" THEN 0 ELSE now,
                          ![r].pc = IF op = "reset" THEN "save" ELSE "read"]
  /\ alone' = (alone /\ \A s \in Calls : ~ Running(s))
  /\ UNCHANGED <<now, docs, newest, breaks>>
----------------------------------------------------------------------------
\* TrackLoginAttemptsUseCase.

TrackRead(r) ==
  /\ call[r].op = "track" /\ call[r].pc = "read"
  /\ call' = [call EXCEPT ![r].login = login, ![r].pc = "save"]
  /\ UNCHANGED <<now, docs, newest, alone, breaks>>

\* Mutant: the last instant of the window still belongs to it.
CountedLate(seen, at) ==
  IF seen.attempts > 0 /\ at <= seen.windowStart + WINDOW
    THEN [attempts |-> seen.attempts + 1, windowStart |-> seen.windowStart]
    ELSE [attempts |-> 1, windowStart |-> at]

\* Mutant: every failure opens a window of its own.
CountedSliding(seen, at) ==
  IF seen.attempts > 0 /\ at < seen.windowStart + WINDOW
    THEN [attempts |-> seen.attempts + 1, windowStart |-> at]
    ELSE [attempts |-> 1, windowStart |-> at]

\* The window is the one of the document read, unless it is over at the request's time.
Counted(seen, at) ==
  IF seen.attempts > 0 /\ at < seen.windowStart + WINDOW
    THEN [attempts |-> seen.attempts + 1, windowStart |-> seen.windowStart]
    ELSE [attempts |-> 1, windowStart |-> at]

TrackSave(r) ==
  /\ call[r].op = "track" /\ call[r].pc = "save"
  /\ login' = Counted(call[r].login, call[r].at)
  /\ IF login'.attempts >= LOCKOUT_THRESHOLD THEN Await(r, "lock") ELSE End(r, "counted")
  /\ UNCHANGED <<now, otp, enabled, newest, alone, breaks>>

\* getUserByEmail and updateUser; that one of them fails is ignored.
Lock(r) ==
  /\ call[r].pc = "lock"
  /\ \/ enabled' = FALSE /\ UNCHANGED breaks
     \/ UNCHANGED enabled /\ breaks < MaxBreaks /\ breaks' = breaks + 1
  /\ End(r, "counted")
  /\ UNCHANGED <<now, login, otp, newest, alone>>
----------------------------------------------------------------------------
\* RequestPasswordResetUseCase and VerifyOtpAndResetUseCase.

\* The new code replaces the old with its attempts; the e-mail, awaited, may fail unseen.
ResetSave(r) ==
  /\ call[r].op = "reset" /\ call[r].pc = "save"
  /\ otp' = [code |-> r, expiresAt |-> call[r].at + OTP_TTL, attempts |-> 0]
  /\ newest' = r
  /\ Await(r, "send")
  /\ UNCHANGED <<now, login, enabled, alone, breaks>>

\* The code by e-mail, or Firebase's reset e-mail: sent or not, nobody learns of a failure.
Send(r) ==
  /\ call[r].pc = "send"
  /\ End(r, IF call[r].op = "reset" THEN "stored" ELSE "right")
  /\ UNCHANGED <<now, docs, newest, alone, breaks>>

\* Mutant: the attempts of a code are not looked at.
VerdictUnlimited(seen, code) ==
  IF seen = NoOtp THEN "unknown"
  ELSE IF now > seen.expiresAt THEN "drop"
  ELSE IF seen.code # code THEN "save" ELSE "consume"

\* From the document read: gone, expired or spent, wrong, or right.
Verdict(seen, code) ==
  IF seen = NoOtp THEN "unknown"
  ELSE IF now > seen.expiresAt \/ seen.attempts >= MAX_ATTEMPTS THEN "drop"
  ELSE IF seen.code # code THEN "save" ELSE "consume"

VerifyRead(r) ==
  /\ call[r].op = "verify" /\ call[r].pc = "read"
  /\ call' = [call EXCEPT ![r].otp = otp, ![r].pc = Verdict(otp, call[r].code)]
  /\ UNCHANGED <<now, docs, newest, alone, breaks>>

\* A wrong attempt saves the copy with one attempt more.
VerifySave(r) ==
  /\ call[r].op = "verify" /\ call[r].pc = "save"
  /\ otp' = [call[r].otp EXCEPT !.attempts = @ + 1]
  /\ End(r, "wrong")
  /\ UNCHANGED <<now, login, enabled, newest, alone, breaks>>

\* An expired or spent code is deleted, and the right one before its e-mail is sent.
Delete(r) ==
  /\ call[r].pc \in {"drop", "consume"}
  /\ otp' = NoOtp
  /\ IF call[r].pc = "drop" THEN End(r, "refused") ELSE Await(r, "send")
  /\ UNCHANGED <<now, login, enabled, newest, alone, breaks>>

\* The process dies or Firestore rejects a call.
Break(r) ==
  /\ Running(r) /\ breaks < MaxBreaks /\ breaks' = breaks + 1
  /\ End(r, "error")
  /\ UNCHANGED <<now, docs, newest, alone>>

CountersNext ==
  \/ Tick
  \/ \E r \in Calls :
       \/ \E op \in {"track", "reset", "verify"}, code \in Calls : Receive(r, op, code)
       \/ TrackRead(r) \/ TrackSave(r) \/ Lock(r)
       \/ ResetSave(r) \/ Send(r) \/ VerifyRead(r) \/ VerifySave(r) \/ Delete(r) \/ Break(r)

CountersSpec == CountersInit /\ [][CountersNext]_counters
----------------------------------------------------------------------------
CountersTypeOK ==
  /\ now \in Times /\ login \in Login /\ otp \in Otp /\ enabled \in BOOLEAN
  /\ call \in [Calls -> Call]
  /\ newest \in Calls \cup {None} /\ alone \in BOOLEAN /\ breaks \in 0 .. MaxBreaks

\* The failures that ran, at least in part, in the window of the counter.
InWindow(r) ==
  /\ call[r].op = "track" /\ call[r].pc \notin {"new", "read"}
  /\ call[r].at < login.windowStart + WINDOW
  /\ Running(r) \/ call[r].end >= login.windowStart

(* Nobody is locked out for fewer failures than the threshold: the counter *)
(* never exceeds the number of failures that ran in its window, and the    *)
(* account is disabled only once that many did, whatever overlaps, fails or*)
(* is slow (TrackLoginAttemptsUseCase.ts 16-42).                           *)
NeverOvercounted ==
  /\ login.attempts <= Cardinality({r \in Calls : InWindow(r)})
  /\ ~ enabled => Cardinality({r \in Calls : call[r].op = "track" /\ call[r].pc # "new"}) >= LOCKOUT_THRESHOLD

(* Requests that come one after the other are all counted, and the one that*)
(* reaches the threshold disables the account: SUMMARY.md's ten failed     *)
(* logins in fifteen minutes, counted from the first of them               *)
(* (TrackLoginAttemptsUseCase.ts 22-42).                                   *)
AloneCounted ==
  alone /\ breaks = 0 =>
    LET mine == {r \in Calls : call[r].op = "track" /\ call[r].pc = "counted"
                                  /\ call[r].at \in login.windowStart .. (login.windowStart + WINDOW - 1)} IN
    (\A r \in Calls : ~ Running(r)) =>
      /\ login.attempts = Cardinality(mine)
      /\ login.attempts >= LOCKOUT_THRESHOLD => ~ enabled

\* The attempts answered on a code: the verifications that read it.
Tried(code, answer) == {r \in Calls : call[r].op = "verify" /\ call[r].otp.code = code /\ call[r].pc = answer}

(* A reset code is good once, for MAX_ATTEMPTS wrong attempts, and until a *)
(* newer one is requested, as long as no two requests of the address       *)
(* overlap: a wrong attempt that overlaps writes its copy back, and with it*)
(* a code that was replaced or used up (VerifyOtpAndResetUseCase.ts 11-35, *)
(* RequestPasswordResetUseCase.ts 18-21).                                  *)
CodesStand ==
  alone =>
    /\ otp.code \in {None, newest}
    /\ \A c \in Calls : /\ Cardinality(Tried(c, "right")) <= 1
                        /\ Cardinality(Tried(c, "wrong")) <= MAX_ATTEMPTS
                        /\ \A r \in Tried(c, "right") : call[r].otp.attempts < MAX_ATTEMPTS
============================================================================
