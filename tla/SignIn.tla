-------------------------------- MODULE SignIn --------------------------------
(***************************************************************************)
(* Consent of Google accounts to the seeder: consents asked for (in memory *)
(* and in a file, for ten minutes), Google's answers to /oauth/callback,   *)
(* the token stored for an account and what was last verified of it, the   *)
(* state shown in the rows of the run, the copy of the token the engine    *)
(* uses, and a restart.                                                    *)
(*                                                                         *)
(* A token is the account whose consent it is.  Anyone who holds an answer *)
(* may send it again, and the user may choose another account than asked.  *)
(* Not modelled: tokens under the file names of an older version, the      *)
(* service-account backend, which stores nothing, and the discarding of a  *)
(* stored token that turns out to be another account's, because none is    *)
(* ever stored (TokenComesFromItsConsent).                                 *)
(***************************************************************************)
EXTENDS Naturals

CONSTANTS
    Emails,      \* Google accounts
    Threads,     \* request threads
    NoEmail,
    NConsents,   \* bound: consents asked for
    MaxTroubles  \* bound: calls to Google that fail, and restarts

Consents == 1..NConsents

VARIABLES
    asked,       \* how many consents were asked for
    wanted,      \* Consents -> the account it was asked for
    memory,      \* _pending: consents in memory
    pending,     \* _oauth_pending.json
    expired,     \* consents older than ten minutes
    token,       \* the token file: Emails -> owner or NoEmail
    verified,    \* the meta file: accounts verified less than ten minutes ago
    row,         \* auth state in the rows of an account
    engine,      \* the engine's copy of the token
    thread,      \* what each request thread is doing
    used,        \* history: how often each consent was exchanged for a token
    late,        \* history: consents exchanged when older than ten minutes
    troubles

stored == <<token, verified, row, engine>>
vars == <<asked, wanted, memory, pending, expired, stored, thread, used, late, troubles>>

Idle == [pc |-> "idle", email |-> NoEmail, consent |-> 0, owner |-> NoEmail]

Init ==
    /\ asked = 0 /\ wanted = [c \in Consents |-> NoEmail]
    /\ memory = {} /\ pending = {} /\ expired = {}
    /\ token = [e \in Emails |-> NoEmail]
    /\ verified = {}
    /\ row = [e \in Emails |-> "none"]
    /\ engine = [e \in Emails |-> NoEmail]
    /\ thread = [t \in Threads |-> Idle]
    /\ used = [c \in Consents |-> 0] /\ late = {}
    /\ troubles = 0

Goto(t, pc) == thread' = [thread EXCEPT ![t].pc = pc]
Done(t)     == thread' = [thread EXCEPT ![t] = Idle]
Fault       == troubles < MaxTroubles /\ troubles' = troubles + 1

-----------------------------------------------------------------------------
(* A consent *)

\* begin: into memory, then into the file, from which expired ones are dropped; only
\* then is the page opened.
Begin(e) ==
    /\ asked < NConsents
    /\ asked' = asked + 1 /\ wanted' = [wanted EXCEPT ![asked + 1] = e]
    /\ memory' = memory \cup {asked + 1}
    /\ pending' = (pending \ expired) \cup {asked + 1}
    /\ UNCHANGED <<expired, stored, thread, troubles, used, late>>

Expire(c) ==
    /\ c \in 1..asked \ expired
    /\ expired' = expired \cup {c}
    /\ UNCHANGED <<asked, wanted, memory, pending, stored, thread, troubles, used, late>>

\* Variant: any consent that is known will do.
WaitsForEver(c) == c \in memory \cup pending

\* Is the consent known, and not too old?
Waits(c) == c \in (memory \cup pending) \ expired

\* finish_callback up to the exchange: the consent is taken out of memory and file; an
\* unknown or expired one ends the request.
Callback(t, c, owner) ==
    /\ thread[t] = Idle /\ c <= asked
    /\ memory' = memory \ {c}
    /\ pending' = pending \ (expired \cup {c})
    /\ IF Waits(c)
       THEN /\ thread' = [thread EXCEPT ![t] = [pc |-> "exchange", email |-> wanted[c],
                                                 consent |-> c, owner |-> owner]]
            /\ used' = [used EXCEPT ![c] = @ + 1] /\ late' = late \cup ({c} \cap expired)
       ELSE UNCHANGED <<thread, used, late>>
    /\ UNCHANGED <<asked, wanted, expired, stored, troubles>>

\* The answer is a refusal, the code is not accepted, or Google does not say whose it is.
CallbackFails(t) ==
    /\ thread[t].pc = "exchange"
    /\ Done(t) /\ Fault
    /\ UNCHANGED <<asked, wanted, memory, pending, expired, stored, used, late>>

\* discard_creds: the token and what is known of it.
Discard(e) ==
    /\ token' = [token EXCEPT ![e] = NoEmail]
    /\ verified' = verified \ {e}

\* verify: the token of another account is not stored, and the one there is discarded.
Verify(t) ==
    /\ thread[t].pc = "exchange"
    /\ LET e == thread[t].email
       IN  IF thread[t].owner = e THEN Goto(t, "save") /\ UNCHANGED <<token, verified>>
           ELSE Discard(e) /\ Goto(t, "mismatch")
    /\ UNCHANGED <<asked, wanted, memory, pending, expired, row, engine, troubles, used, late>>

SaveToken(t) ==
    /\ thread[t].pc = "save"
    /\ token' = [token EXCEPT ![thread[t].email] = thread[t].owner]
    /\ Goto(t, "meta")
    /\ UNCHANGED <<asked, wanted, memory, pending, expired, verified, row, engine, troubles, used, late>>

SaveMeta(t) ==
    /\ thread[t].pc = "meta"
    /\ verified' = verified \cup {thread[t].email}
    /\ Goto(t, "authorized")
    /\ UNCHANGED <<asked, wanted, memory, pending, expired, token, row, engine, troubles, used, late>>

\* oauth_callback: all rows of the account, in one update of the manifest.
WriteRows(t) ==
    /\ thread[t].pc \in {"mismatch", "authorized"}
    /\ row' = [row EXCEPT ![thread[t].email] = thread[t].pc]
    /\ IF thread[t].pc = "authorized" THEN Goto(t, "mirror") ELSE Done(t)
    /\ UNCHANGED <<asked, wanted, memory, pending, expired, token, verified, engine, troubles, used, late>>

\* on_authorize: the engine gets what the token file holds now, if anything.
Mirror(t) ==
    /\ thread[t].pc = "mirror"
    /\ LET e == thread[t].email
       IN  engine' = [engine EXCEPT ![e] = IF token[e] = NoEmail THEN @ ELSE token[e]]
    /\ Done(t)
    /\ UNCHANGED <<asked, wanted, memory, pending, expired, token, verified, row, troubles, used, late>>

-----------------------------------------------------------------------------
(* The state of an account, asked for under the lock of the manifest *)

Asking == {t \in Threads : thread[t].pc \in {"load", "refresh", "check"}}

\* _refresh_auth_row and status: the token is read, and refreshed when it is too old.
Load(t, e) ==
    /\ thread[t] = Idle /\ Asking = {}
    /\ \E old \in BOOLEAN :
           thread' = [thread EXCEPT ![t] =
               [pc |-> IF old /\ token[e] # NoEmail THEN "refresh" ELSE "check",
                email |-> e, consent |-> 0, owner |-> token[e]]]
    /\ UNCHANGED <<asked, wanted, memory, pending, expired, stored, troubles, used, late>>

\* The refreshed token is stored again; Google may refuse or not answer.
Refresh(t) ==
    /\ thread[t].pc = "refresh"
    /\ LET e == thread[t].email
       IN  \/ /\ token' = [token EXCEPT ![e] = thread[t].owner]
              /\ Goto(t, "check") /\ UNCHANGED <<row, troubles>>
           \/ /\ \E st \in {"expired", "unknown"} : row' = [row EXCEPT ![e] = st]
              /\ Done(t) /\ Fault /\ UNCHANGED token
    /\ UNCHANGED <<asked, wanted, memory, pending, expired, verified, engine, used, late>>

\* No usable token; one verified lately or now; or Google does not answer.
Check(t) ==
    /\ thread[t].pc = "check"
    /\ LET e == thread[t].email
           own == thread[t].owner
       IN  \/ /\ own = NoEmail
              /\ row' = [row EXCEPT ![e] = IF token[e] = NoEmail THEN "none" ELSE "expired"]
              /\ UNCHANGED <<verified, troubles>>
           \/ /\ own # NoEmail
              /\ verified' = verified \cup {e}
              /\ row' = [row EXCEPT ![e] = "authorized"]
              /\ UNCHANGED troubles
           \/ /\ own # NoEmail /\ e \notin verified
              /\ row' = [row EXCEPT ![e] = "unknown"]
              /\ Fault /\ UNCHANGED verified
    /\ Done(t)
    /\ UNCHANGED <<asked, wanted, memory, pending, expired, token, engine, used, late>>

\* Ten minutes after a verification.
Stale(e) ==
    /\ e \in verified
    /\ verified' = verified \ {e}
    /\ UNCHANGED <<asked, wanted, memory, pending, expired, token, row, engine, thread, troubles, used, late>>

Restart ==
    /\ Fault
    /\ memory' = {}
    /\ thread' = [t \in Threads |-> Idle]
    /\ UNCHANGED <<asked, wanted, pending, expired, stored, used, late>>

Next ==
    \/ \E e \in Emails : Begin(e) \/ Stale(e)
    \/ \E c \in Consents : Expire(c)
    \/ \E t \in Threads, c \in Consents, e \in Emails : Callback(t, c, e)
    \/ \E t \in Threads : CallbackFails(t) \/ Verify(t) \/ SaveToken(t) \/ SaveMeta(t)
    \/ \E t \in Threads : WriteRows(t) \/ Mirror(t) \/ Refresh(t) \/ Check(t)
    \/ \E t \in Threads, e \in Emails : Load(t, e)
    \/ Restart
Spec == Init /\ [][Next]_vars

-----------------------------------------------------------------------------
(* Properties *)

\* The consent c was asked for the account e, and exchanged once and in time.
Consented(e, c) == wanted[c] = e /\ used[c] = 1 /\ c \notin late

\* A token gets into the store of an account only when that account gave it, by a
\* consent asked for it less than ten minutes before the answer came and not honoured
\* already, or when the token there is refreshed: whatever answers come twice, late, from
\* another account or after a restart, and whatever else is being asked or answered.
TokenComesFromItsConsent ==
    [][\A e \in Emails : token'[e] \notin {token[e], NoEmail} =>
           /\ token'[e] = e
           /\ \E t \in Threads :
                  /\ thread[t].email = e
                  /\ \/ thread[t].pc = "refresh"
                     \/ thread[t].pc = "save" /\ Consented(e, thread[t].consent)]_vars
=============================================================================
