--------------------------- MODULE SessionProofs ---------------------------
(***************************************************************************)
(* Theorems about Session, for any number of retries, any generator of     *)
(* keys and any signature.  CallInv is the inductive invariant.            *)
(***************************************************************************)
EXTENDS Session, TLAPS, SequenceTheorems

USE DEF At, Return, SecretKeys, Ended

\* mfconn_update_secret_key stays within the range of the generator.
LEMMA AdvanceType == \A k \in SecretKeys : Advance(k) \in SecretKeys
<1> TAKE k \in SecretKeys
<1>1. k * Mult \in Nat
  BY SessionAssumption
<1> DEFINE x == k * Mult
<1>2. x \in Nat => x % Modulus \in 0 .. Modulus - 1
  <2> HIDE DEF x
  <2> QED BY SessionAssumption
<1> QED BY <1>1, <1>2 DEF Advance

\* The loop counters of the outer logins.
LEMMA OuterType ==
  ASSUME TypeOK, login # <<>>
  PROVE  /\ Outer \in Seq(0 .. MaxRetries)
         /\ Len(Outer) = Len(login) - 1
         /\ Len(login) = 1 => Outer = <<>>
<1>1. login \in Seq(0 .. MaxRetries) /\ Len(login) \in Nat \ {0}
  BY EmptySeq DEF TypeOK
<1> DEFINE n == Len(login)
<1>2. \A i \in 1 .. n - 1 : login[i] \in 0 .. MaxRetries
  <2> TAKE i \in 1 .. n - 1
  <2>1. i \in 1 .. Len(login)
    <3> HIDE DEF n
    <3>1. n = Len(login) /\ n \in Nat
      BY <1>1 DEF n
    <3> QED BY <3>1
  <2> QED BY <1>1, <2>1, ElementOfSeq
<1>3. 1 \in Int /\ n - 1 \in Int
  BY <1>1
<1>4. Outer \in Seq(0 .. MaxRetries)
  BY <1>2, <1>3, SubSeqProperties DEF Outer
<1>5. Len(Outer) = IF 1 <= n - 1 THEN n - 1 - 1 + 1 ELSE 0
  BY <1>2, <1>3, SubSeqProperties DEF Outer
<1>6. Len(Outer) = n - 1
  <2> DEFINE m == Len(Outer)
  <2>1. n \in Nat \ {0} /\ m = IF 1 <= n - 1 THEN n - 1 - 1 + 1 ELSE 0
    BY <1>1, <1>5
  <2> HIDE DEF n, m
  <2>2. m = n - 1
    BY <2>1
  <2> QED BY <2>2 DEF m
<1> QED BY <1>4, <1>6, EmptySeq

LEMMA SignedCallForms ==
  \A c \in SignedCalls : c = UserGetInfo \/ \E out \in {"null", "kept", "none"} : c = Signed(out)
  BY DEF SignedCalls, DeviceGetChanges, DeviceGetUpdates, FolderGetContent, UploadSimple,
     UploadPatch, DeviceGetStatus, DeviceGetPatch, FileGetInfo, FileGetLinks,
     FolderGetInfo, UploadCheck, FileDelete, FileMove, FileUpdate, FolderCreate,
     FolderDelete, FolderMove, FolderUpdate, UploadInstant

\* What is known of each call.
LEMMA CallTypes ==
  /\ \A c \in SignedCalls : c.signed = TRUE
  /\ \A c \in Calls : c.out \in Results \ {"answer"}
<1>1. \A c \in SignedCalls : c.signed = TRUE /\ c.out \in Results \ {"answer"}
  BY SignedCallForms DEF Signed, UserGetInfo, Results
<1> QED BY <1>1 DEF Calls, UploadPollUpload, Create, Results

LEMMA CallsNotCreate == \A c \in SignedCalls \cup {UploadPollUpload} : c # Create
<1>1. Create.signed = FALSE /\ Create.retries = FALSE
  BY DEF Create
<1>2. UploadPollUpload.retries = TRUE
  BY DEF UploadPollUpload
<1> QED BY <1>1, <1>2, CallTypes

LEMMA InitCallInv == Init => CallInv
<1> SUFFICES ASSUME Init PROVE CallInv
  OBVIOUS
<1>1. <<0>> \in Seq(0 .. MaxRetries) /\ Len(<<0>>) = 1 /\ <<0>> # <<>>
  BY SessionAssumption
<1>2. TypeOK
  <2>1. call \in Calls /\ result \in Results /\ retval \in Retvals
    BY DEF Init, Calls, Results, Retvals
  <2>2. login \in Seq(0 .. MaxRetries) /\ Len(login) <= MaxLogins
    BY <1>1, SessionAssumption DEF Init
  <2>3. 0 \in SecretKeys /\ 0 \in 0 .. MaxRetries
    BY SessionAssumption
  <2> QED BY <2>1, <2>2, <2>3 DEF Init, TypeOK
<1>3. LoopInv /\ AttemptsInv /\ SmoothInv
  BY <1>1, SessionAssumption DEF Init, LoopInv, AttemptsInv, SmoothInv, Create
<1>4. KeysAgree /\ RepeatsNeedTimeout /\ Honest /\ Recovers
  BY DEF Init, KeysAgree, RepeatsNeedTimeout, Honest, Recovers
<1> QED BY <1>2, <1>3, <1>4 DEF CallInv

\* A call begins, or the poll is repeated.
LEMMA BeginStep ==
  CallInv /\ (Start \/ StartPoll \/ PollAgain) => CallInv'
<1> SUFFICES ASSUME CallInv, Start \/ StartPoll \/ PollAgain PROVE CallInv'
  OBVIOUS
<1> USE SessionAssumption DEF CallInv
<1>1. /\ call' \in Calls \ {Create} /\ attempt' = 0 /\ result' = call'.out
      /\ polling' \in BOOLEAN /\ uploaded' \in BOOLEAN
      /\ pc' = "attempt" /\ retval' = "ok"
      /\ login = <<>> /\ UNCHANGED <<session, login, ub>>
      /\ done' = 0 /\ timeouts' = 0
      /\ trouble' \in BOOLEAN
  BY CallsNotCreate DEF Start, StartPoll, PollAgain, Begin, Forget, Calls, TypeOK, LoopInv, AttemptsInv
<1>2. ~trouble' /\ call'.signed => token = "issued"
  <2>1. CASE Start \/ StartPoll
    BY <2>1 DEF Start, StartPoll, Begin
  <2>2. CASE PollAgain
    BY <2>2 DEF PollAgain, UploadPollUpload
  <2> QED BY <2>1, <2>2
<1>3. TypeOK'
  BY <1>1, CallTypes DEF TypeOK, session, Retvals
<1>4. LoopInv' /\ AttemptsInv' /\ SmoothInv'
  BY <1>1, <1>2 DEF LoopInv, AttemptsInv, SmoothInv, session
<1>5. KeysAgree' /\ RepeatsNeedTimeout' /\ Honest' /\ Recovers'
  BY <1>1 DEF KeysAgree, RepeatsNeedTimeout, Honest, Recovers, session
<1> QED BY <1>3, <1>4, <1>5

LEMMA CannotSignStep == CallInv /\ CannotSign => CallInv'
<1> SUFFICES ASSUME CallInv, CannotSign PROVE CallInv'
  OBVIOUS
<1> USE SessionAssumption DEF CallInv, CannotSign, session, loop, history
<1>1. TypeOK'
  BY DEF TypeOK, Retvals
<1>2. LoopInv' /\ AttemptsInv' /\ SmoothInv'
  BY DEF LoopInv, AttemptsInv, SmoothInv
<1>3. KeysAgree' /\ RepeatsNeedTimeout' /\ Honest' /\ Recovers'
  BY DEF KeysAgree, RepeatsNeedTimeout, Honest, Recovers, LoopInv, AttemptsInv, SmoothInv, TypeOK
<1> QED BY <1>1, <1>2, <1>3

\* A request is sent, and its answer taken.
LEMMA AttemptStep == CallInv /\ Attempt => CallInv'
<1> SUFFICES ASSUME CallInv, Attempt PROVE CallInv'
  OBVIOUS
<1> USE SessionAssumption DEF CallInv
<1> PICK o \in Outcomes :
      /\ Possible(o)
      /\ skey' = IF o.served /\ call.signed THEN Advance(skey) ELSE skey
      /\ key' = KeyAfter(o)
      /\ done' = IF o.served THEN done + 1 ELSE done
      /\ timeouts' = IF o.ret = "timeout" THEN timeouts + 1 ELSE timeouts
      /\ trouble' = (trouble \/ o.ret \in {"timeout", "error"})
      /\ loose' = (loose \/ (call.signed /\ o.ret \notin {"ok", "refused"}))
      /\ result' = IF o.ret = "ok" THEN "answer" ELSE result
      /\ IF call.retries /\ Retryable(o.ret)
         THEN pc' = "refresh" /\ UNCHANGED retval
         ELSE Return(o.ret)
  BY DEF Attempt
<1>1. /\ pc = "attempt" /\ login = <<>>
      /\ call.signed => token = "issued"
      /\ UNCHANGED <<token, call, attempt, login, polling, uploaded, ub>>
  BY DEF Attempt, LoopInv
<1>2. /\ o.served \in BOOLEAN /\ o.ret \in Retvals
      /\ o.served => o.ret # "token"
      /\ ~o.served => o.ret \notin {"ok", "refused"}
  BY DEF Outcomes, Retvals
<1>3. /\ done \in Nat /\ timeouts \in Nat /\ attempt \in Nat
      /\ done <= timeouts /\ timeouts <= attempt /\ attempt < MaxRetries
      /\ call # Create
  BY <1>1 DEF TypeOK, LoopInv, AttemptsInv
<1>4. done' \in Nat /\ timeouts' \in Nat /\ done' <= done + 1 /\ timeouts' <= timeouts + 1
  BY <1>2, <1>3
<1>5. key' \in SecretKeys /\ skey' \in SecretKeys \cup {Ended}
  <2>1. o.served /\ call.signed => skey # Ended
    BY DEF Possible, Accepts
  <2> QED BY <2>1, AdvanceType DEF TypeOK, KeyAfter
<1>6. TypeOK'
  BY <1>1, <1>2, <1>3, <1>4, <1>5 DEF TypeOK, Results
<1>7. LoopInv'
  BY <1>1, <1>3 DEF LoopInv
<1>8. AttemptsInv'
  <2>1. pc' = "refresh" => o.ret \in {"token", "timeout"}
    BY DEF Retryable
  <2>2. pc' = "refresh" => done' <= timeouts' /\ timeouts' <= attempt + 1
    BY <1>2, <1>3, <2>1
  <2>3. pc' \in {"refresh", "returned"}
    OBVIOUS
  <2> QED BY <1>1, <1>3, <2>2, <2>3 DEF AttemptsInv
<1>9. SmoothInv'
  <2> SUFFICES ASSUME ~trouble', call.signed, call.retries
               PROVE  SmoothInv'
    BY <1>1 DEF SmoothInv
  <2>1. ~trouble /\ o.ret \notin {"timeout", "error"}
    OBVIOUS
  <2>2. done = 0 /\ token = "issued" /\ (attempt > 0 => key = skey)
    BY <1>1, <2>1 DEF SmoothInv
  <2>3. pc' = "refresh" => o.ret = "token"
    BY <2>1 DEF Retryable
  <2>4. o.ret = "token" => attempt = 0 /\ ~o.served
    <3>1. o.ret = "token" => ~Accepts
      BY DEF Possible
    <3>2. attempt > 0 => key = skey /\ skey # Ended
      BY <2>2 DEF TypeOK
    <3>3. attempt > 0 => Accepts
      BY <2>2, <3>2 DEF Accepts
    <3> QED BY <1>2, <1>3, <3>1, <3>3
  <2>5. pc' \in {"refresh", "returned"}
    OBVIOUS
  <2> QED BY <1>1, <2>2, <2>3, <2>4, <2>5 DEF SmoothInv
<1>10. KeysAgree'
  <2> SUFFICES ASSUME token = "issued", skey' # Ended, ~loose' PROVE key' = skey'
    BY <1>1 DEF KeysAgree
  <2>1. ~loose /\ (call.signed => o.ret \in {"ok", "refused"})
    OBVIOUS
  <2>2. call.signed => o.served
    BY <1>2, <2>1
  <2>3. call.signed => skey # Ended
    BY <2>2 DEF Possible, Accepts
  <2>4. key = skey
    BY <2>1, <2>3 DEF KeysAgree
  <2> QED BY <2>2, <2>4 DEF KeyAfter
<1>11. RepeatsNeedTimeout'
  <2>1. done' <= done + 1 /\ timeouts <= timeouts'
    BY <1>2, <1>3
  <2> QED BY <1>3, <1>4, <2>1 DEF RepeatsNeedTimeout
<1>12. Honest'
  BY <1>2 DEF Honest
<1>13. Recovers'
  <2> SUFFICES ASSUME pc' = "returned", call.signed, call.retries, ~trouble'
               PROVE  retval' \in {"ok", "refused"} /\ done' = 1
    BY <1>1 DEF Recovers
  <2>1. ~trouble /\ o.ret \notin {"timeout", "error"} /\ ~Retryable(o.ret)
    OBVIOUS
  <2>2. o.ret \in {"ok", "refused"} /\ o.served
    BY <1>2, <2>1 DEF Retryable, Retvals
  <2>3. done = 0
    BY <1>1, <2>1 DEF SmoothInv
  <2> QED BY <2>1, <2>2, <2>3
<1> QED BY <1>6, <1>7, <1>8, <1>9, <1>10, <1>11, <1>12, <1>13

\* The refresh before another attempt: it is begun, and it returns.
LEMMA RefreshStep == CallInv /\ (Refresh \/ RefreshReturns) => CallInv'
<1> SUFFICES ASSUME CallInv, Refresh \/ RefreshReturns PROVE CallInv'
  OBVIOUS
<1> USE SessionAssumption DEF CallInv
<1>1. CASE Refresh
  <2>1. <<0>> \in Seq(0 .. MaxRetries) /\ Len(<<0>>) = 1 /\ <<0>> # <<>>
    BY SessionAssumption
  <2>2. TypeOK'
    BY <1>1, <2>1 DEF Refresh, TypeOK, history
  <2>3. LoopInv' /\ AttemptsInv' /\ SmoothInv'
    BY <1>1, <2>1 DEF Refresh, LoopInv, AttemptsInv, SmoothInv, history
  <2>4. KeysAgree' /\ RepeatsNeedTimeout' /\ Honest' /\ Recovers'
    BY <1>1 DEF Refresh, KeysAgree, RepeatsNeedTimeout, Honest, Recovers, history
  <2> QED BY <2>2, <2>3, <2>4
<1>2. CASE RefreshReturns
  <2> USE <1>2 DEF RefreshReturns, Again, session, history
  <2>1. TypeOK'
    BY DEF TypeOK, LoopInv, Retvals
  <2>2. LoopInv' /\ AttemptsInv' /\ SmoothInv'
    BY DEF TypeOK, LoopInv, AttemptsInv, SmoothInv
  <2>3. KeysAgree' /\ RepeatsNeedTimeout'
    BY DEF KeysAgree, RepeatsNeedTimeout
  <2>4. Honest'
    BY DEF Honest, TypeOK, LoopInv
  <2>5. Recovers'
    \* A smooth call has had one attempt, and there is a second.
    BY DEF Recovers, SmoothInv, TypeOK, LoopInv
  <2> QED BY <2>1, <2>2, <2>3, <2>4, <2>5
<1> QED BY <1>1, <1>2

LEMMA LoginAnswersStep == CallInv /\ LoginAnswers => CallInv'
<1> SUFFICES ASSUME CallInv, LoginAnswers PROVE CallInv'
  OBVIOUS
<1> USE SessionAssumption DEF CallInv, LoginAnswers, Issued, history
<1>1. login # <<>>
  BY DEF LoopInv
<1>2. TypeOK'
  <2>1. login' \in Seq(0 .. MaxRetries) /\ Len(login') = Len(login) - 1 /\ Len(login) \in Nat
    BY <1>1, OuterType DEF TypeOK
  <2>2. Len(login') <= MaxLogins
    BY <2>1 DEF TypeOK
  <2>3. retval' \in Retvals
    BY DEF Retvals
  <2> QED BY <2>1, <2>2, <2>3 DEF TypeOK
<1>3. LoopInv' /\ AttemptsInv'
  BY DEF LoopInv, AttemptsInv
<1>4. SmoothInv'
  BY <1>1, OuterType DEF SmoothInv
<1>5. KeysAgree' /\ RepeatsNeedTimeout' /\ Honest' /\ Recovers'
  BY DEF KeysAgree, RepeatsNeedTimeout, Honest, Recovers
<1> QED BY <1>2, <1>3, <1>4, <1>5

\* A login that got no answer: it repeats, fails or meets garbage, or its own
\* refresh is over.  The call is no smooth one any more.
LEMMA LoginTroubleStep ==
  CallInv /\ (LoginRepeats \/ LoginFails \/ LoginFreesGarbage \/ LoginReturns) => CallInv'
<1> SUFFICES ASSUME CallInv, LoginRepeats \/ LoginFails \/ LoginFreesGarbage \/ LoginReturns
             PROVE  CallInv'
  OBVIOUS
<1> USE SessionAssumption DEF CallInv, session, loop, history
<1>1. CASE LoginRepeats
  <2> USE <1>1 DEF LoginRepeats
  <2>1. /\ Append(login, 0) \in Seq(0 .. MaxRetries)
        /\ Len(Append(login, 0)) = Len(login) + 1
        /\ Append(login, 0) # <<>> /\ Len(login) \in Nat
    BY AppendProperties DEF TypeOK
  <2>2. TypeOK'
    BY <2>1 DEF TypeOK
  <2>3. LoopInv' /\ AttemptsInv' /\ SmoothInv'
    BY <2>1 DEF LoopInv, AttemptsInv, SmoothInv
  <2>4. KeysAgree' /\ RepeatsNeedTimeout' /\ Honest' /\ Recovers'
    BY DEF KeysAgree, RepeatsNeedTimeout, Honest, Recovers
  <2> QED BY <2>2, <2>3, <2>4
<1>2. CASE LoginFails
  <2> USE <1>2 DEF LoginFails, Unset
  <2>1. login # <<>>
    BY DEF LoopInv
  <2>2. TypeOK'
    BY <2>1, OuterType DEF TypeOK, Retvals
  <2>3. LoopInv' /\ AttemptsInv' /\ SmoothInv'
    BY DEF LoopInv, AttemptsInv, SmoothInv
  <2>4. KeysAgree' /\ RepeatsNeedTimeout' /\ Honest' /\ Recovers'
    BY DEF KeysAgree, RepeatsNeedTimeout, Honest, Recovers
  <2> QED BY <2>2, <2>3, <2>4
<1>3. CASE LoginFreesGarbage
  <2> USE <1>3 DEF LoginFreesGarbage
  <2>1. TypeOK' /\ LoopInv' /\ AttemptsInv' /\ SmoothInv'
    BY DEF TypeOK, LoopInv, AttemptsInv, SmoothInv
  <2>2. KeysAgree' /\ RepeatsNeedTimeout' /\ Honest' /\ Recovers'
    BY DEF KeysAgree, RepeatsNeedTimeout, Honest, Recovers
  <2> QED BY <2>1, <2>2
<1>4. CASE LoginReturns
  <2> DEFINE i == login[Len(login)] + 1
  <2>1. login # <<>> /\ pc = "back"
    BY <1>4 DEF LoginReturns
  <2>2. Len(login) \in 1 .. Len(login) /\ login[Len(login)] \in 0 .. MaxRetries
    <3>1. login \in Seq(0 .. MaxRetries) /\ Len(login) \in Nat /\ Len(login) # 0
      BY <2>1, EmptySeq DEF TypeOK
    <3>2. Len(login) \in 1 .. Len(login)
      BY <3>1
    <3> QED BY <3>1, <3>2, ElementOfSeq
  <2>3. ~(~trouble /\ call.signed /\ call.retries)
    BY <2>1 DEF SmoothInv
  <2>4. CASE retval = "ok" /\ i < MaxRetries
    <3>1. /\ login' = [login EXCEPT ![Len(login)] = i]
          /\ pc' = "login"
          /\ UNCHANGED <<token, key, skey, loose, call, attempt, result, polling,
                         retval, uploaded, ub, done, timeouts, trouble>>
      BY <1>4, <2>4 DEF LoginReturns
    <3>2. i \in 0 .. MaxRetries
      BY <2>2, <2>4
    <3>3. login' \in Seq(0 .. MaxRetries) /\ Len(login') = Len(login) /\ login' # <<>>
      <4>1. login' \in Seq(0 .. MaxRetries) /\ Len(login') = Len(login)
        BY <2>2, <3>1, <3>2, ExceptSeq DEF TypeOK
      <4> QED BY <2>2, <4>1, EmptySeq
    <3>4. TypeOK'
      BY <3>1, <3>3 DEF TypeOK
    <3>5. LoopInv' /\ AttemptsInv' /\ SmoothInv'
      BY <2>1, <2>3, <3>1, <3>3 DEF LoopInv, AttemptsInv, SmoothInv
    <3>6. KeysAgree' /\ RepeatsNeedTimeout' /\ Honest' /\ Recovers'
      BY <3>1 DEF KeysAgree, RepeatsNeedTimeout, Honest, Recovers
    <3> QED BY <3>4, <3>5, <3>6
  <2>5. CASE ~(retval = "ok" /\ i < MaxRetries)
    <3>1. Unset /\ login' = Outer
          /\ UNCHANGED <<pc, loose, call, attempt, result, polling,
                         retval, uploaded, ub, done, timeouts, trouble>>
      BY <1>4, <2>5 DEF LoginReturns
    <3>2. TypeOK'
      BY <2>1, <3>1, OuterType DEF TypeOK, Unset
    <3>3. LoopInv' /\ AttemptsInv' /\ SmoothInv'
      BY <2>1, <2>3, <3>1 DEF LoopInv, AttemptsInv, SmoothInv
    <3>4. KeysAgree' /\ RepeatsNeedTimeout' /\ Honest' /\ Recovers'
      BY <2>1, <3>1 DEF KeysAgree, RepeatsNeedTimeout, Honest, Recovers, Unset
    <3> QED BY <3>2, <3>3, <3>4
  <2> QED BY <2>4, <2>5
<1> QED BY <1>1, <1>2, <1>3, <1>4

\* Between calls, and what the service does on its own.
LEMMA OtherStep ==
  CallInv /\ (Created \/ Leave \/ Expire \/ Complete \/ UNCHANGED vars) => CallInv'
<1> SUFFICES ASSUME CallInv, Created \/ Leave \/ Expire \/ Complete \/ UNCHANGED vars
             PROVE  CallInv'
  OBVIOUS
<1> USE SessionAssumption DEF CallInv, session, loop, history
<1>1. CASE Created
  <2> USE <1>1 DEF Created
  <2>1. TypeOK'
    BY DEF TypeOK
  <2>2. LoopInv'
    BY DEF LoopInv
  <2>3. AttemptsInv'
    BY DEF AttemptsInv
  <2>4. SmoothInv'
    BY DEF SmoothInv
  <2>5. KeysAgree' /\ RepeatsNeedTimeout' /\ Honest' /\ Recovers'
    BY DEF KeysAgree, RepeatsNeedTimeout, Honest, Recovers
  <2> QED BY <2>1, <2>2, <2>3, <2>4, <2>5
<1>2. CASE Leave
  <2>1. /\ pc = "returned" /\ pc' = "idle"
        /\ polling' = FALSE /\ attempt' = 0
        /\ done' = 0 /\ timeouts' = 0 /\ trouble' = FALSE
        /\ UNCHANGED <<token, key, skey, loose, call, login, result, retval, uploaded, ub>>
    BY <1>2 DEF Leave, Forget
  <2>2. TypeOK'
    <3>1. 0 \in 0 .. MaxRetries
      BY SessionAssumption
    <3>2. /\ token' \in {"null", "issued", "garbage"} /\ key' \in SecretKeys
          /\ skey' \in SecretKeys \cup {Ended}
          /\ call' \in Calls /\ retval' \in Retvals /\ result' \in Results
      BY <2>1 DEF TypeOK
    <3>3. login' \in Seq(0 .. MaxRetries) /\ Len(login') <= MaxLogins
      BY <2>1 DEF TypeOK
    <3>4. polling' \in BOOLEAN /\ uploaded' \in BOOLEAN /\ ub' \in BOOLEAN
          /\ trouble' \in BOOLEAN /\ loose' \in BOOLEAN
      BY <1>2, <2>1 DEF TypeOK, Leave
    <3> QED BY <2>1, <3>1, <3>2, <3>3, <3>4 DEF TypeOK
  <2>3. LoopInv' /\ AttemptsInv'
    BY <2>1 DEF LoopInv, AttemptsInv
  <2>4. SmoothInv'
    BY <2>1 DEF SmoothInv
  <2>5. KeysAgree' /\ RepeatsNeedTimeout' /\ Honest' /\ Recovers'
    BY <2>1 DEF KeysAgree, RepeatsNeedTimeout, Honest, Recovers
  <2> QED BY <2>2, <2>3, <2>4, <2>5
<1>3. CASE Expire
  <2> USE <1>3 DEF Expire
  <2>1. TypeOK'
    BY DEF TypeOK
  <2>2. LoopInv' /\ AttemptsInv'
    BY DEF LoopInv, AttemptsInv
  <2>3. SmoothInv'
    BY DEF SmoothInv, LoopInv
  <2>4. KeysAgree' /\ RepeatsNeedTimeout' /\ Honest' /\ Recovers'
    BY DEF KeysAgree, RepeatsNeedTimeout, Honest, Recovers
  <2> QED BY <2>1, <2>2, <2>3, <2>4
<1>4. CASE Complete
  <2> USE <1>4 DEF Complete
  <2>1. TypeOK'
    BY DEF TypeOK
  <2>2. LoopInv' /\ AttemptsInv'
    BY DEF LoopInv, AttemptsInv
  <2>3. SmoothInv'
    BY DEF SmoothInv, LoopInv
  <2>4. KeysAgree' /\ RepeatsNeedTimeout' /\ Honest' /\ Recovers'
    BY DEF KeysAgree, RepeatsNeedTimeout, Honest, Recovers
  <2> QED BY <2>1, <2>2, <2>3, <2>4
<1>5. CASE UNCHANGED vars
  <2> USE <1>5 DEF vars
  <2>1. TypeOK'
    BY DEF TypeOK
  <2>2. LoopInv' /\ AttemptsInv'
    BY DEF LoopInv, AttemptsInv
  <2>3. SmoothInv'
    BY DEF SmoothInv, LoopInv
  <2>4. KeysAgree' /\ RepeatsNeedTimeout' /\ Honest' /\ Recovers'
    BY DEF KeysAgree, RepeatsNeedTimeout, Honest, Recovers
  <2> QED BY <2>1, <2>2, <2>3, <2>4
<1> QED BY <1>1, <1>2, <1>3, <1>4, <1>5

LEMMA CallInvAlways == Spec => []CallInv
<1>1. CallInv /\ [Next]_vars => CallInv'
  BY BeginStep, CannotSignStep, AttemptStep, RefreshStep, LoginAnswersStep,
     LoginTroubleStep, OtherStep DEF Next, Caller
<1> QED BY InitCallInv, <1>1, PTL DEF Spec

\* Every reachable state of the connection is a record of the stated types; no
\* call sends more than MaxRetries requests (done and attempt are bounded).
THEOREM SessionTypeCorrect == Spec => []TypeOK
BY CallInvAlways, PTL DEF CallInv

\* Client and service never lose track of the key while answers arrive,
\* whatever the multiplier, the modulus and the part that is signed.
THEOREM KeysAlwaysAgree == Spec => []KeysAgree
BY CallInvAlways, PTL DEF CallInv

\* For any number of retries, only a timeout makes the service do a call twice.
THEOREM NoRepeatWithoutTimeout == Spec => []RepeatsNeedTimeout
BY CallInvAlways, PTL DEF CallInv

\* Success without an answer comes only from the last attempt of the loop.
THEOREM SuccessIsHonest == Spec => []Honest
BY CallInvAlways, PTL DEF CallInv

\* With two attempts or more, a lost or ended session is made good within the
\* call that finds out, and the call is carried out exactly once.
THEOREM SessionRecovers == Spec => []Recovers
BY CallInvAlways, PTL DEF CallInv
=============================================================================
