------------------------------- MODULE Access -------------------------------
(***************************************************************************)
(* Who gets in: the operator login with its throttle and sessions, and the *)
(* enrollment of agents (packages/relay/src/login-throttle.ts,             *)
(* operator-session.ts, the login route, the enrollment rows of db.ts).    *)
(*                                                                         *)
(* Each handler runs without an await. The throttle lives in memory; its   *)
(* life is one run of the process.                                         *)
(*                                                                         *)
(* Abstracted: passwords, hashes and signatures (a login succeeds or not); *)
(* the tailnet gate, which only refuses before anything is looked at.      *)
(***************************************************************************)
EXTENDS RelayTime, Sequences, FiniteSets

CONSTANTS
  Accounts,      \* fleet and e-mail pairs somebody tries
  Addresses,     \* client addresses, after resolveClientIp
  MaxFailures,   \* config.loginMaxFailures
  LoginWindow,   \* config.loginWindowSeconds
  MaxBuckets,    \* config.loginThrottleMaxBuckets
  SessionTtl,    \* config.operatorSessionTtlSeconds
  Tokens,        \* enrollment tokens
  TokenTtl,      \* seconds an enrollment token lives
  MaxTries       \* bound: failed logins

\* The throttle prefixes its keys with "acct:" or "ip:"; its limits are positive.
ASSUME AccessAssumption ==
  /\ Accounts \cap Addresses = {}
  /\ {MaxFailures, LoginWindow} \subseteq Nat \ {0}

VARIABLES
  bucket,    \* throttle key -> [failures, resetAt], failures 0: no bucket
  fails,     \* history: instants of the failures of each key, an account's
             \*   since its last successful login
  dropped,   \* history: keys that were refused a bucket
  session,   \* when the newest operator session was issued, -1 for none
  token,     \* enrollment_tokens: [issued, used]
  enrolled   \* agents rows: [token, identity, known]

accessVars == <<bucket, fails, dropped, session, token, enrolled>>

Keyed == Accounts \cup Addresses
NoBucket == [failures |-> 0, resetAt |-> 0]

AccessInit ==
  /\ bucket = [k \in Keyed |-> NoBucket]
  /\ fails = [k \in Keyed |-> <<>>]
  /\ dropped = {}
  /\ session = -1
  /\ token = [t \in Tokens |-> [issued |-> -1, used |-> FALSE]]
  /\ enrolled = {}

-----------------------------------------------------------------------------
(* The throttle *)

Live(b, k) == b[k].failures > 0 /\ b[k].resetAt > now
Buckets(b) == Cardinality({k \in Keyed : b[k].failures > 0})

sweep(b) == [k \in Keyed |-> IF Live(b, k) THEN b[k] ELSE NoBucket]

Blocked(k) == Live(bucket, k) /\ bucket[k].failures >= MaxFailures

\* check deletes what has run out of the two buckets it looks at.
Checked(acct, ip) ==
  [k \in Keyed |-> IF k \in {acct, ip} THEN sweep(bucket)[k] ELSE bucket[k]]

\* One key of recordFailure: a bucket that lives is counted up, another is
\* begun, unless it is new and the map is full even after a sweep.
Recorded(b, k) ==
  LET full  == b[k].failures = 0 /\ Buckets(b) >= MaxBuckets
      b1    == IF full THEN sweep(b) ELSE b
  IN IF Live(b, k) THEN [b EXCEPT ![k].failures = @ + 1]
     ELSE IF full /\ Buckets(b1) >= MaxBuckets THEN b1
     ELSE [b1 EXCEPT ![k] = [failures |-> 1, resetAt |-> now + LoginWindow]]

loginFails(acct, ip) ==
  LET b1 == Recorded(Checked(acct, ip), acct)
      b2 == Recorded(b1, ip)
  IN
  /\ ~Blocked(acct) /\ ~Blocked(ip)
  /\ \A k \in {acct, ip} : Len(fails[k]) < MaxTries
  /\ bucket' = b2
  /\ fails' = [k \in Keyed |-> IF k \in {acct, ip} THEN Append(fails[k], now) ELSE fails[k]]
  /\ dropped' = dropped \cup {k \in {acct, ip} : b2[k].failures = 0}
  /\ UNCHANGED <<session, token, enrolled>>

\* Mutant: a login clears the address as well.
ClearedAlso(acct, ip) == {acct, ip}

\* recordSuccess: the account only.
ClearedBy(acct, ip) == {acct}

loginSucceeds(acct, ip) ==
  /\ ~Blocked(acct) /\ ~Blocked(ip)
  /\ bucket' = [k \in Keyed |-> IF k \in ClearedBy(acct, ip) THEN NoBucket ELSE Checked(acct, ip)[k]]
  /\ fails' = [fails EXCEPT ![acct] = <<>>]
  /\ dropped' = dropped \ {acct}
  /\ session' = now
  /\ UNCHANGED <<token, enrolled>>

loginRefused(acct, ip) ==
  /\ Blocked(acct) \/ Blocked(ip)
  /\ bucket' = Checked(acct, ip)
  /\ UNCHANGED <<fails, dropped, session, token, enrolled>>

sweepBuckets ==
  /\ bucket' = sweep(bucket)
  /\ UNCHANGED <<fails, dropped, session, token, enrolled>>

LoginStep ==
  \/ \E acct \in Accounts, ip \in Addresses :
       loginFails(acct, ip) \/ loginSucceeds(acct, ip) \/ loginRefused(acct, ip)
  \/ sweepBuckets

-----------------------------------------------------------------------------
(* Enrollment, by an operator with a session that is not too old *)

requireOperatorAuth == session >= 0 /\ now - session <= SessionTtl

issueEnrollmentToken(t) ==
  /\ requireOperatorAuth
  /\ token[t].issued < 0
  /\ token' = [token EXCEPT ![t].issued = now]
  /\ UNCHANGED <<bucket, fails, dropped, session, enrolled>>

Claimable(t) ==
  token[t].issued >= 0 /\ ~token[t].used /\ token[t].issued + TokenTtl > now

\* createAgentFromEnrollment and, after its transaction, the identity key. The
\* relay may stop in between, and the reply may be lost with the secret.
enroll(t, keyStored, arrives) ==
  /\ Claimable(t)
  /\ arrives => keyStored
  /\ token' = [token EXCEPT ![t].used = TRUE]
  /\ enrolled' = enrolled \cup
       {[token |-> t, identity |-> keyStored, known |-> arrives, at |-> now]}
  /\ UNCHANGED <<bucket, fails, dropped, session>>

\* POST /v1/identity-key: an agent that has its secret publishes its key.
setAgentIdentityKey(a) ==
  /\ a.known
  /\ enrolled' = (enrolled \ {a}) \cup {[a EXCEPT !.identity = TRUE]}
  /\ UNCHANGED <<bucket, fails, dropped, session, token>>

EnrollStep ==
  \/ \E acct \in Accounts, ip \in Addresses : loginSucceeds(acct, ip)
  \/ \E t \in Tokens : issueEnrollmentToken(t)
  \/ \E t \in Tokens, keyStored, arrives \in BOOLEAN : enroll(t, keyStored, arrives)
  \/ \E a \in enrolled : setAgentIdentityKey(a)

-----------------------------------------------------------------------------
\* Failures of k at the instants of T.
FailsIn(k, T) == Cardinality({i \in DOMAIN fails[k] : fails[k][i] \in T})

\* However logins of several accounts from several addresses, successful
\* ones, sweeps and a full map interleave, a key that was never denied a
\* bucket sees fewer than twice the allowed failures in any span of a window:
\* a success does not wipe the address, and neither counter of one attempt
\* is lost to the other (recordFailure, recordSuccess, sweep).
GuessesBounded ==
  \A k \in Keyed \ dropped : \A t \in 0..MaxTime :
    FailsIn(k, t..(t + LoginWindow - 1)) < 2 * MaxFailures

=============================================================================
