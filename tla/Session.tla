------------------------------ MODULE Session ------------------------------
(***************************************************************************)
(* The connection to the service (mfapi/mfconn.c), the calls made over it  *)
(* (mfapi/apicalls) and the loop that waits for an upload.                 *)
(*                                                                         *)
(* A session is a token and a secret key.  Client and service each hold    *)
(* the key, sign and check a call with it, and advance it once per call.   *)
(* Every call is a loop of at most MaxRetries attempts; after a timeout or *)
(* a token error (retval 28 or 127) mfconn_refresh_token asks for a new    *)
(* session and the loop goes on.  The login that answers it,               *)
(* user/get_session_token, has the same loop and so may refresh in turn:   *)
(* login holds the loop counters of the logins that run, the innermost     *)
(* last.                                                                   *)
(*                                                                         *)
(* One thread uses the connection at a time (the mutex of the mount).  The *)
(* service is external: it checks signatures, answers or not, and may end  *)
(* a session whenever it likes.  Abstracted: the contents of calls and     *)
(* answers; arguments that a call refuses before it sends anything.        *)
(***************************************************************************)
EXTENDS Naturals, Sequences

CONSTANTS
  MaxRetries,  \* max_num_retries
  Mult,        \* 16807
  Modulus,     \* 0x7FFFFFFF
  SigMod,      \* 256: what of the key goes into a signature
  MaxLogins    \* bound: logins that wait for one another

ASSUME SessionAssumption ==
  /\ MaxRetries \in Nat \ {0}
  /\ Mult \in Nat
  /\ Modulus \in Nat \ {0} /\ SigMod \in Nat \ {0}
  /\ MaxLogins \in Nat \ {0}

-----------------------------------------------------------------------------
(* The calls: whether a signature is needed, whether the call has the retry *)
(* loop, and what is in its result if it returns 0 without an answer: the  *)
(* NULL that each attempt starts with, what the caller had there, memory   *)
(* of its own that was never set, or there is no result.                   *)

Signed(out)     == [signed |-> TRUE, retries |-> TRUE, out |-> out]

DeviceGetChanges == Signed("null")
DeviceGetUpdates == Signed("null")
FolderGetContent == Signed("null")
UploadSimple     == Signed("null")
UploadPatch      == Signed("null")
DeviceGetStatus  == Signed("kept")
DeviceGetPatch   == Signed("kept")
FileGetInfo      == Signed("kept")
FileGetLinks     == Signed("kept")
FolderGetInfo    == Signed("kept")
UploadCheck      == Signed("kept")
FileDelete       == Signed("none")
FileMove         == Signed("none")
FileUpdate       == Signed("none")
FolderCreate     == Signed("none")
FolderDelete     == Signed("none")
FolderMove       == Signed("none")
FolderUpdate     == Signed("none")
UploadInstant    == Signed("none")
UserGetInfo      == [signed |-> TRUE, retries |-> FALSE, out |-> "kept"]
UploadPollUpload == [signed |-> FALSE, retries |-> TRUE, out |-> "unset"]

SignedCalls ==
  {DeviceGetChanges, DeviceGetUpdates, FolderGetContent, UploadSimple, UploadPatch,
   DeviceGetStatus, DeviceGetPatch, FileGetInfo, FileGetLinks, FolderGetInfo,
   UploadCheck, FileDelete, FileMove, FileUpdate, FolderCreate, FolderDelete,
   FolderMove, FolderUpdate, UploadInstant, UserGetInfo}

\* mfconn_create is no call of its own: it logs in.
Create == [signed |-> FALSE, retries |-> FALSE, out |-> "none"]

Calls == SignedCalls \cup {UploadPollUpload, Create}

VARIABLES
  token,       \* session_token, secret_time and ekey: "null", "issued" or "garbage"
  key,         \* secret_key
  skey,        \* the service's key of the issued session, or Ended
  pc,
  call, attempt,   \* the running call, its loop counter
  login,       \* loop counters of the running logins
  retval,
  result,      \* what the call's result holds
  polling,     \* the call was made by mfconn_upload_poll_for_completion
  uploaded,    \* the service has finished with the upload
  ub,          \* memory that was never initialised has been used
  done,        \* times that the service carried out the call (history)
  timeouts,    \* attempts of the call that timed out (history)
  trouble,     \* something got lost or ended during the call (history)
  loose        \* a signed call of the session got no proper answer (history)

session == <<token, key, skey, loose>>
loop    == <<call, attempt, login, result, polling>>
history == <<done, timeouts, trouble>>
vars    == <<session, pc, loop, retval, uploaded, ub, history>>

Ended == Modulus
SecretKeys == 0 .. Modulus - 1
Results == {"null", "kept", "unset", "none", "answer"}

\* The values of retval: 0; 127; 28; an error the service reports; any other.
Retvals == {"ok", "token", "timeout", "refused", "error"}

TypeOK ==
  /\ token \in {"null", "issued", "garbage"}
  /\ key \in SecretKeys
  /\ skey \in SecretKeys \cup {Ended}
  /\ pc \in {"idle", "attempt", "refresh", "login", "back", "returned", "stopped"}
  /\ call \in Calls
  /\ attempt \in 0 .. MaxRetries
  /\ login \in Seq(0 .. MaxRetries)
  /\ Len(login) <= MaxLogins
  /\ retval \in Retvals
  /\ result \in Results
  /\ polling \in BOOLEAN /\ uploaded \in BOOLEAN /\ ub \in BOOLEAN
  /\ done \in 0 .. MaxRetries
  /\ timeouts \in 0 .. MaxRetries
  /\ trouble \in BOOLEAN /\ loose \in BOOLEAN

-----------------------------------------------------------------------------
(* Keys and signatures. *)

\* mfconn_update_secret_key.  The product of a 32 bit key and 16807 fits in
\* the 64 bits of the code.
Advance(k) == (k * Mult) % Modulus

\* What of the key a call's signature depends on.
Signature(k) == k % SigMod

\* The service accepts a call.
Accepts ==
  \/ ~call.signed
  \/ token = "issued" /\ skey # Ended /\ Signature(key) = Signature(skey)

At(label) == pc = label /\ ~ub

-----------------------------------------------------------------------------
(* The loop of a call. *)

Return(r) == pc' = "returned" /\ retval' = r

Begin(c, poll) ==
  /\ call' = c /\ attempt' = 0
  /\ result' = c.out
  /\ polling' = poll
  /\ pc' = "attempt" /\ retval' = "ok"
  /\ trouble' = (token # "issued")
  /\ UNCHANGED <<session, login, ub, done, timeouts>>

Start == At("idle") /\ \E c \in SignedCalls : Begin(c, FALSE) /\ UNCHANGED uploaded

\* mfconn_create_signed_get refuses a token that is NULL, and reads any other.
CannotSign ==
  /\ At("attempt")
  /\ call.signed /\ token # "issued"
  /\ IF token = "null" THEN Return("error") /\ UNCHANGED ub
                       ELSE ub' = TRUE /\ UNCHANGED <<pc, retval>>
  /\ UNCHANGED <<session, loop, uploaded, history>>

\* What can become of a request, as http_get_buf and http_post_file report it.
Outcomes ==
  [served : {TRUE}, ret : {"ok", "refused", "timeout", "error"}]
    \cup [served : {FALSE}, ret : {"token", "timeout", "error"}]

Possible(o) ==
  /\ o.served => Accepts
  /\ o.ret = "token" => ~Accepts

\* Mutant: the key is advanced only when the call succeeded.
KeyAfterSuccess(o) == IF call.signed /\ o.ret = "ok" THEN Advance(key) ELSE key
\* Whatever came back, the client takes its key to be used up.
KeyAfter(o) == IF call.signed THEN Advance(key) ELSE key

\* Mutant: a lost connection is retried like a timeout.
RetryableAny(r) == r \in {"token", "timeout", "error"}
\* A timeout or a token error: get a new token and try again.
Retryable(r) == r \in {"token", "timeout"}

Attempt ==
  /\ At("attempt")
  /\ call.signed => token = "issued"
  /\ \E o \in Outcomes :
       /\ Possible(o)
       /\ skey' = IF o.served /\ call.signed THEN Advance(skey) ELSE skey
       /\ key' = KeyAfter(o)
       /\ done' = IF o.served THEN done + 1 ELSE done
       /\ timeouts' = IF o.ret = "timeout" THEN timeouts + 1 ELSE timeouts
       /\ trouble' = (trouble \/ o.ret \in {"timeout", "error"})
       /\ loose' = (loose \/ (call.signed /\ o.ret \notin {"ok", "refused"}))
       /\ result' = IF o.ret = "ok" THEN "answer" ELSE result
       /\ IF call.retries /\ Retryable(o.ret)
          THEN pc' = "refresh" /\ UNCHANGED retval
          ELSE Return(o.ret)
  /\ UNCHANGED <<token, call, attempt, login, polling, uploaded, ub>>

\* mfconn_refresh_token frees what it had and logs in.
Refresh ==
  /\ At("refresh")
  /\ ub' = (token = "garbage")
  /\ token' = "null" /\ skey' = Ended
  /\ login' = <<0>>
  /\ pc' = "login"
  /\ UNCHANGED <<key, loose, call, attempt, result, polling, retval, uploaded, history>>

\* Mutant: the new token is all there is to it.
AgainNever == attempt' = attempt + 1 /\ Return("ok")
\* Mutant: one attempt too many.
AgainOneMore ==
  /\ attempt' = attempt + 1
  /\ IF attempt < MaxRetries THEN pc' = "attempt" /\ UNCHANGED retval
                             ELSE Return("ok")
\* The loop's end: with the new token, another attempt if one is left.  After
\* the last, retval is that of the refresh.
Again ==
  /\ attempt' = attempt + 1
  /\ IF attempt + 1 < MaxRetries THEN pc' = "attempt" /\ UNCHANGED retval
                                 ELSE Return("ok")

RefreshReturns ==
  /\ At("back")
  /\ login = <<>> /\ call # Create
  /\ IF retval = "ok" THEN Again ELSE Return("error") /\ UNCHANGED attempt
  /\ UNCHANGED <<session, call, login, result, polling, uploaded, ub, history>>

-----------------------------------------------------------------------------
(* The login, user/get_session_token. *)

Outer == SubSeq(login, 1, Len(login) - 1)

\* After its loop the login copies its response to the connection.  Unless its
\* last request was answered nobody has set that response.
Unset ==
  /\ token' \in {"null", "garbage"}
  /\ key' \in SecretKeys
  /\ skey' = Ended

\* Mutant: the key of the old session is kept.
IssuedOldKey == token' = "issued" /\ skey' \in SecretKeys /\ key' = key /\ loose' = FALSE
\* The answer: a new session.
Issued == token' = "issued" /\ skey' \in SecretKeys /\ key' = skey' /\ loose' = FALSE

LoginAnswers ==
  /\ At("login") /\ token # "garbage"
  /\ Issued
  /\ login' = Outer
  /\ retval' = "ok" /\ pc' = "back"
  /\ UNCHANGED <<call, attempt, result, polling, uploaded, ub, history>>

\* A timeout or token error in a login is followed by a login of its own.
LoginRepeats ==
  /\ At("login") /\ token # "garbage"
  /\ Len(login) < MaxLogins
  /\ token' = "null" /\ skey' = Ended
  /\ login' = Append(login, 0)
  /\ trouble' = TRUE
  /\ UNCHANGED <<key, loose, pc, call, attempt, result, polling, retval, uploaded,
                 ub, done, timeouts>>

LoginFails ==
  /\ At("login") /\ token # "garbage"
  /\ Unset
  /\ login' = Outer
  /\ retval' = "error" /\ pc' = "back"
  /\ trouble' = TRUE
  /\ UNCHANGED <<loose, call, attempt, result, polling, uploaded, ub, done, timeouts>>

\* The first thing of each attempt is to free the strings of the connection.
LoginFreesGarbage ==
  /\ At("login") /\ token = "garbage"
  /\ ub' = TRUE
  /\ UNCHANGED <<session, pc, loop, retval, uploaded, history>>

\* The inner login is over.  Its session is given up if the loop goes on.
LoginReturns ==
  /\ At("back")
  /\ login # <<>>
  /\ LET i == login[Len(login)] + 1 IN
       IF retval = "ok" /\ i < MaxRetries
       THEN /\ login' = [login EXCEPT ![Len(login)] = i]
            /\ pc' = "login"
            /\ UNCHANGED <<token, key, skey>>
       ELSE /\ Unset
            /\ login' = Outer
            /\ UNCHANGED pc
  /\ UNCHANGED <<loose, call, attempt, result, polling, retval, uploaded, ub, history>>

\* Without a session fuse does not start.
Created ==
  /\ At("back")
  /\ login = <<>> /\ call = Create
  /\ pc' = IF retval = "ok" THEN "idle" ELSE "stopped"
  /\ trouble' = FALSE
  /\ UNCHANGED <<session, loop, retval, uploaded, ub, done, timeouts>>

-----------------------------------------------------------------------------
(* mfconn_upload_poll_for_completion, and the callers of the other calls. *)

\* The states of an upload: in progress, and two that are terminal.
Busy == 0
Statuses == {Busy, 98, 99}

StartPoll == At("idle") /\ Begin(UploadPollUpload, TRUE) /\ uploaded' = FALSE

\* The status after a poll that returned 0.
Status == IF result # "answer" THEN Statuses ELSE IF uploaded THEN {98, 99} ELSE {Busy}

\* Mutant: one of the two terminal states is forgotten.
Finished99(status) == status = 99
Finished(status) == status \in {98, 99}

Forget == done' = 0 /\ timeouts' = 0 /\ trouble' = FALSE

PollAgain ==
  /\ At("returned") /\ polling /\ retval = "ok"
  /\ \E s \in Status : ~Finished(s)
  /\ call' = UploadPollUpload /\ attempt' = 0
  /\ result' = UploadPollUpload.out
  /\ pc' = "attempt"
  /\ Forget
  /\ UNCHANGED <<session, login, polling, retval, uploaded, ub>>

Leave ==
  /\ At("returned")
  /\ polling /\ retval = "ok" => \E s \in Status : Finished(s)
  /\ pc' = "idle"
  /\ polling' = FALSE /\ attempt' = 0
  /\ Forget
  /\ UNCHANGED <<session, call, login, result, retval, uploaded, ub>>

-----------------------------------------------------------------------------
(* The service on its own. *)

\* It ends the session.
Expire ==
  /\ token = "issued" /\ skey # Ended
  /\ skey' = Ended
  /\ trouble' = TRUE
  /\ UNCHANGED <<token, key, loose, pc, loop, retval, uploaded, ub, done, timeouts>>

\* It finishes the upload.
Complete ==
  /\ polling /\ ~uploaded
  /\ uploaded' = TRUE
  /\ UNCHANGED <<session, pc, loop, retval, ub, history>>

Init ==
  /\ token = "null" /\ key = 0 /\ skey = Ended /\ loose = FALSE
  /\ pc = "login" /\ login = <<0>>
  /\ call = Create /\ attempt = 0 /\ result = "none"
  /\ polling = FALSE /\ uploaded = FALSE
  /\ retval = "ok"
  /\ ub = FALSE
  /\ done = 0 /\ timeouts = 0 /\ trouble = FALSE

\* The thread that is inside a call.
Caller ==
  \/ CannotSign \/ Attempt \/ Refresh \/ RefreshReturns
  \/ LoginAnswers \/ LoginRepeats \/ LoginFails \/ LoginFreesGarbage \/ LoginReturns
  \/ Created \/ PollAgain \/ Leave

Next == Start \/ StartPoll \/ Caller \/ Expire \/ Complete

Spec == Init /\ [][Next]_vars

Answered == Attempt /\ result' = "answer"

\* A call that has begun goes on: every request is answered or fails.  The
\* network does not lose every answer, and the service finishes with what was
\* uploaded.
FairSpec == Spec /\ WF_vars(Caller) /\ SF_vars(Answered) /\ WF_vars(Complete)

-----------------------------------------------------------------------------
(* What holds between the steps; with TypeOK it is inductive. *)

\* Where the loops are.
LoopInv ==
  /\ pc = "login" => login # <<>>
  /\ pc \in {"attempt", "refresh", "returned", "idle", "stopped"} => login = <<>>
  /\ pc = "back" => retval \in {"ok", "error"}
  /\ pc \in {"attempt", "refresh", "login", "back"} => attempt < MaxRetries
  /\ pc = "refresh" => call.retries
  /\ call = Create => pc \notin {"attempt", "refresh", "returned"}

\* What has become of the attempts so far.
AttemptsInv ==
  /\ pc \in {"idle", "stopped"} \/ call = Create => done = 0 /\ timeouts = 0
  /\ pc = "attempt" => done <= timeouts /\ timeouts <= attempt
  /\ pc \in {"refresh", "login", "back"} => done <= timeouts /\ timeouts <= attempt + 1

\* A call that nothing went wrong with: rejected at most once, then on a new
\* session whose key both sides know.
SmoothInv ==
  ~trouble /\ call.signed /\ call.retries =>
    /\ pc \in {"attempt", "refresh", "login", "back"} => done = 0
    /\ pc = "attempt" => token = "issued"
    /\ pc = "attempt" /\ attempt > 0 => key = skey
    /\ pc \in {"refresh", "login", "back"} => attempt = 0
    /\ pc = "login" => Len(login) = 1
    /\ pc = "back" => login = <<>> /\ retval = "ok" /\ token = "issued" /\ key = skey

-----------------------------------------------------------------------------
(* Properties. *)

\* Client and service hold the same key as long as every signed call of the
\* session got an answer that was no token error: whatever mixture of successes
\* and refusals came before, and however often the session was replaced.
KeysAgree == token = "issued" /\ skey # Ended /\ ~loose => key = skey

\* The service carries out one call a second time only after an attempt timed
\* out: token errors and lost connections never repeat a folder/create.
RepeatsNeedTimeout == done <= timeouts + 1

\* A call that returns 0 has been answered with success, unless it has used up
\* all its attempts on timeouts and token errors.
Honest == pc = "returned" /\ retval = "ok" => result = "answer" \/ attempt = MaxRetries

\* "on a curl timeout we get a new token because it is likely that we lost
\* signature synchronization": a call on a session that has ended, or whose key
\* an earlier call has lost track of, is still carried out once and answered if
\* nothing gets lost meanwhile.
Recovers ==
  pc = "returned" /\ call.signed /\ call.retries /\ ~trouble /\ MaxRetries >= 2
    => retval \in {"ok", "refused"} /\ done = 1

\* The wait for an upload, during which flush holds the mutex, ends.
PollEnds == polling ~> (~polling \/ ub)

\* "get a new token and try again": what returns 0 was answered.
SuccessIsAnswered == pc = "returned" /\ retval = "ok" => result = "answer"

CallInv ==
  /\ TypeOK /\ LoopInv /\ AttemptsInv /\ SmoothInv
  /\ KeysAgree /\ RepeatsNeedTimeout /\ Honest /\ Recovers
=============================================================================
