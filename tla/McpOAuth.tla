------------------------------ MODULE McpOAuth ------------------------------
(***************************************************************************)
(* The MCP connector's OAuth server (packages/mcp-connector/src/oauth.ts): *)
(* client registration, consent with the operator's password, the code     *)
(* exchange, and refresh with rotation.                                    *)
(*                                                                         *)
(* Clients and tokens are written to oauth.json; consents and codes live   *)
(* in memory only. A write may fail and throws, so the caller gets no      *)
(* answer and memory is ahead of the file until the next write.            *)
(*                                                                         *)
(* Abstracted: redirect addresses, PKCE and the resource, to whether an    *)
(* exchange passes; lifetimes, to the possibility that anything expires;   *)
(* and the password, with the throttle on wrong ones, to whether a consent *)
(* is ever completed.                                                      *)
(***************************************************************************)
EXTENDS Sequences, FiniteSets, SequencesExt

CONSTANTS
  OClients,      \* ids registration may draw
  Grants,        \* consents, numbered in the order they begin
  MaxClients,    \* MAX_CLIENTS
  MaxTokens,     \* MAX_TOKENS
  MaxPairs       \* bound: token pairs issued

VARIABLES
  oauth,     \* in memory: [clients, tokens], the clients oldest first
  oauthFile, \* oauth.json
  consent,   \* Grants -> [st, client]: none, open, code, spent
  pairs,     \* token pairs issued so far
  handed       \* history: refresh tokens some client was handed

oauthVars == <<oauth, oauthFile, consent, pairs, handed>>

OAuthInit ==
  /\ oauth = [clients |-> <<>>, tokens |-> {}]
  /\ oauthFile = oauth
  /\ consent = [g \in Grants |-> [st |-> "none", client |-> 0]]
  /\ pairs = 0 /\ handed = {}

Registered(s, c) == c \in Range(s.clients)
Refreshes(s) == {t \in s.tokens : t.kind = "refresh"}
hasLiveRefreshToken(s, c) == \E t \in Refreshes(s) : t.client = c

\* Tokens are kept in the order they were issued, the access token of a pair first.
IssuedAfter(t, u) == t.n > u.n \/ (t.n = u.n /\ t.kind = "refresh" /\ u.kind = "access")

\* persist drops the oldest tokens past the cap and writes the file.
Trimmed(s) ==
  [s EXCEPT !.tokens = {t \in @ : Cardinality({u \in @ : IssuedAfter(u, t)}) < MaxTokens}]

persist(s, written) ==
  /\ oauth' = Trimmed(s)
  /\ oauthFile' = IF written THEN Trimmed(s) ELSE oauthFile

\* removeClientAt: the client goes with its tokens.
removeClientAt(s, i) ==
  [clients |-> RemoveAt(s.clients, i),
   tokens  |-> {t \in s.tokens : t.client # s.clients[i]}]

\* registerClient: a full registry gives up the oldest client that has no
\* live refresh token, or refuses.
registerClient(c, written) ==
  LET full == Len(oauth.clients) >= MaxClients
      Loose(i) == ~hasLiveRefreshToken(oauth, oauth.clients[i])
  IN
  /\ ~Registered(oauth, c)
  /\ \/ /\ ~full
        /\ persist([oauth EXCEPT !.clients = Append(@, c)], written)
     \/ /\ full
        /\ \E i \in DOMAIN oauth.clients :
             /\ Loose(i) /\ \A j \in 1..(i - 1) : ~Loose(j)
             /\ persist([removeClientAt(oauth, i) EXCEPT !.clients = Append(@, c)], written)
  /\ UNCHANGED <<consent, pairs, handed>>

\* GET /oauth/authorize: validateAuthorizeRequest and beginConsent.
beginConsent(g, c) ==
  /\ Registered(oauth, c)
  /\ consent[g].st = "none"
  /\ consent' = [consent EXCEPT ![g] = [st |-> "open", client |-> c]]
  /\ UNCHANGED <<oauth, oauthFile, pairs, handed>>

\* POST /oauth/authorize with the right password turns a consent into a code.
completeConsent(g) ==
  /\ consent[g].st = "open"
  /\ consent' = [consent EXCEPT ![g].st = "code"]
  /\ UNCHANGED <<oauth, oauthFile, pairs, handed>>

\* Mutant: a code is spent only by the exchange that fails.
SpentByFailure(g, passes) == IF passes THEN consent ELSE [consent EXCEPT ![g].st = "spent"]

\* The code is deleted before it is looked at: single use, even on failure.
Spent(g, passes) == [consent EXCEPT ![g].st = "spent"]

\* A pair of tokens for grant g; arrives: the answer reaches the client.
issueTokens(s, g, c, written, arrives) ==
  LET access  == [kind |-> "access", client |-> c, grant |-> g, n |-> pairs]
      refresh == [kind |-> "refresh", client |-> c, grant |-> g, n |-> pairs]
  IN
  /\ pairs < MaxPairs
  /\ pairs' = pairs + 1
  /\ persist([s EXCEPT !.tokens = @ \cup {access, refresh}], written)
  /\ handed' = IF written /\ arrives THEN handed \cup {refresh} ELSE handed

\* grant_type authorization_code, by client c with the code of grant g.
tokenFromCode(g, c, proof, written, arrives) ==
  LET passes == consent[g].client = c /\ proof IN
  /\ Registered(oauth, c)
  /\ consent[g].st = "code"
  /\ consent' = Spent(g, passes)
  /\ IF passes THEN issueTokens(oauth, g, c, written, arrives)
               ELSE UNCHANGED <<oauth, oauthFile, pairs, handed>>

\* grant_type refresh_token, with any refresh token that was ever handed out;
\* the one that is presented dies.
tokenFromRefresh(t, c, written, arrives) ==
  /\ Registered(oauth, c)
  /\ t \in Refreshes(oauth) /\ t.client = c
  /\ issueTokens([oauth EXCEPT !.tokens = @ \ {t}], t.grant, c, written, arrives)
  /\ UNCHANGED consent

\* A consent or a code runs out.
consentExpires(g) ==
  /\ consent[g].st \in {"open", "code"}
  /\ consent' = [consent EXCEPT ![g].st = "spent"]
  /\ UNCHANGED <<oauth, oauthFile, pairs, handed>>

\* A token runs out: nobody accepts it and the next write leaves it out.
tokenExpires(t) ==
  /\ oauth' = [oauth EXCEPT !.tokens = @ \ {t}]
  /\ oauthFile' = [oauthFile EXCEPT !.tokens = @ \ {t}]
  /\ UNCHANGED <<consent, pairs, handed>>

oauthRestarts ==
  /\ oauth' = oauthFile
  /\ consent' = [g \in Grants |-> [consent[g] EXCEPT !.st = IF @ = "none" THEN @ ELSE "spent"]]
  /\ UNCHANGED <<oauthFile, pairs, handed>>

OAuthNext ==
  \/ \E c \in OClients, written \in BOOLEAN : registerClient(c, written)
  \/ \E g \in Grants, c \in OClients : beginConsent(g, c)
  \/ \E g \in Grants : completeConsent(g) \/ consentExpires(g)
  \/ \E g \in Grants, c \in OClients, proof, written, arrives \in BOOLEAN :
       tokenFromCode(g, c, proof, written, arrives)
  \/ \E t \in handed, c \in OClients, written, arrives \in BOOLEAN :
       tokenFromRefresh(t, c, written, arrives)
  \/ \E t \in oauth.tokens : tokenExpires(t)
  \/ oauthRestarts

-----------------------------------------------------------------------------
\* One consent, one line of refresh tokens: presented codes and rotated
\* tokens, failed writes, restarts and the caps never leave a consent with
\* two refresh tokens in memory, nor any token with a client that is gone.
GrantUnforked ==
  /\ \A g \in Grants : Cardinality({t \in Refreshes(oauth) : t.grant = g}) <= 1
  /\ \A t \in oauth.tokens : Registered(oauth, t.client)
=============================================================================
