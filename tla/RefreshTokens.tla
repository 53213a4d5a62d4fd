--------------------------- MODULE RefreshTokens ---------------------------
(***************************************************************************)
(* Accounts and refresh tokens: AuthService                                *)
(* (src/apps/api/src/auth/auth.service.ts) against the tables users and    *)
(* refresh_tokens.  Every statement is committed on its own, and one action *)
(* is one statement with what the code does until the next.                 *)
(*                                                                          *)
(* Covered: registration of one address by several requests, login, refresh *)
(* with its three statements, expiry, statements that fail or whose answer  *)
(* is lost, clients that present a token again.                             *)
(* Not covered: wrong passwords, which are refused before anything is       *)
(* written; hashing and signing, which are library calls; access tokens,    *)
(* which the server does not keep.                                          *)
(***************************************************************************)
EXTENDS Integers, FiniteSets

CONSTANTS
    Handlers,   \* connections on which requests are served at the same time
    Emails,     \* addresses; an account is named by its address
    NoEmail,    \* no address
    MaxTokens   \* bound on the rows of refresh_tokens

ASSUME RefreshTokensAssumption ==
    NoEmail \notin Emails /\ MaxTokens \in Nat

\* randomBytes never draws a token twice; tokens are numbered as they are stored.
Tokens  == 1..MaxTokens
NoToken == 0

VARIABLES
    users,      \* table users: the addresses that have an account
    tokens,     \* table refresh_tokens; parent and replay are history
    given,      \* tokens that were returned to a client
    expired,    \* tokens past their expires_at
    authStep,   \* the statement each handler executes next
    email,      \* the account of its request
    presented,  \* the token of its refresh request, NoToken for the others
    replay      \* history: that token was used up when the request came in

authVars == <<users, tokens, given, expired, authStep, email, presented, replay>>

TokenRows  == [user : Emails \cup {NoEmail}, parent : Tokens \cup {NoToken},
               replay : BOOLEAN, state : {"none", "valid", "revoked"}]
NoTokenRow == [user |-> NoEmail, parent |-> NoToken, replay |-> FALSE,
               state |-> "none"]

AuthSteps   == {"idle", "insertUser", "selectUser", "selectToken", "consume", "issue"}

\* Type invariant: the tables and the locals of the requests to AuthService.
TokensTypeOK ==
    /\ users \subseteq Emails
    /\ tokens \in [Tokens -> TokenRows]
    /\ given \subseteq Tokens
    /\ expired \subseteq Tokens
    /\ authStep \in [Handlers -> AuthSteps]
    /\ email \in [Handlers -> Emails \cup {NoEmail}]
    /\ presented \in [Handlers -> Tokens \cup {NoToken}]
    /\ replay \in [Handlers -> BOOLEAN]

TokensInit ==
    /\ users = {}
    /\ tokens = [t \in Tokens |-> NoTokenRow]
    /\ given = {}
    /\ expired = {}
    /\ authStep = [h \in Handlers |-> "idle"]
    /\ email = [h \in Handlers |-> NoEmail]
    /\ presented = [h \in Handlers |-> NoToken]
    /\ replay = [h \in Handlers |-> FALSE]

AuthGoto(h, step) ==
    /\ authStep' = [authStep EXCEPT ![h] = step]
    /\ UNCHANGED <<email, presented, replay>>

\* The request is answered: 200 or 201 with a token, 401, 409 or 500.
AuthDone(h) ==
    /\ authStep' = [authStep EXCEPT ![h] = "idle"]
    /\ email' = [email EXCEPT ![h] = NoEmail]
    /\ presented' = [presented EXCEPT ![h] = NoToken]
    /\ replay' = [replay EXCEPT ![h] = FALSE]

-----------------------------------------------------------------------------
(* POST /auth/register, /auth/login and /auth/refresh. *)

\* Used, or past its expiry.
UsedUp(t) == tokens[t].state # "valid" \/ t \in expired

AuthRequest(h, e, t, step) ==
    /\ authStep[h] = "idle"
    /\ authStep' = [authStep EXCEPT ![h] = step]
    /\ email' = [email EXCEPT ![h] = e]
    /\ presented' = [presented EXCEPT ![h] = t]
    /\ replay' = [replay EXCEPT ![h] = t # NoToken /\ UsedUp(t)]
    /\ UNCHANGED <<users, tokens, given, expired>>

Register(h, e) == AuthRequest(h, e, NoToken, "insertUser")
Login(h, e)    == AuthRequest(h, e, NoToken, "selectUser")

\* A client, or whoever has got hold of it, presents a token it was given.
Refresh(h, t) == t \in given /\ AuthRequest(h, NoEmail, t, "selectToken")

\* Where the address has an account, SQLSTATE 23505 becomes a 409.
InsertUser(h) ==
    /\ authStep[h] = "insertUser"
    /\ users' = users \cup {email[h]}
    /\ IF email[h] \in users THEN AuthDone(h) ELSE AuthGoto(h, "issue")
    /\ UNCHANGED <<tokens, given, expired>>

SelectUser(h) ==
    /\ authStep[h] = "selectUser"
    /\ IF email[h] \in users THEN AuthGoto(h, "issue") ELSE AuthDone(h)
    /\ UNCHANGED <<users, tokens, given, expired>>

\* Bug: the row is found whether or not it was revoked.
Acceptable_Revoked(t) == t \notin expired

\* A row with this hash, not revoked, and Date.now() not after expires_at.
Acceptable(t) == tokens[t].state = "valid" /\ t \notin expired

SelectToken(h) ==
    /\ authStep[h] = "selectToken"
    /\ IF Acceptable(presented[h]) THEN AuthGoto(h, "consume") ELSE AuthDone(h)
    /\ UNCHANGED <<users, tokens, given, expired>>

\* UPDATE ... WHERE id = $1: whether the token is still valid is not asked.
Consume(h) ==
    /\ authStep[h] = "consume"
    /\ tokens' = [tokens EXCEPT ![presented[h]].state = "revoked"]
    /\ AuthGoto(h, "issue")
    /\ UNCHANGED <<users, given, expired>>

\* Whom the new token is for: the owner of the token presented, if there is one.
Subject(h) == IF presented[h] = NoToken THEN email[h] ELSE tokens[presented[h]].user

\* issueRefreshToken; the row may be there and the request fail all the same.
IssueToken(h, t) ==
    /\ authStep[h] = "issue"
    /\ \A u \in Tokens : tokens[u].state = "none" <=> u >= t
    /\ tokens' = [tokens EXCEPT ![t] = [user |-> Subject(h), parent |-> presented[h],
                                        replay |-> replay[h], state |-> "valid"]]
    /\ given' \in {given, given \cup {t}}
    /\ AuthDone(h)
    /\ UNCHANGED <<users, expired>>

\* A statement fails without effect; those committed before it stay: an account
\* without a token, a token consumed without a successor.
AuthFails(h) ==
    /\ authStep[h] # "idle"
    /\ AuthDone(h)
    /\ UNCHANGED <<users, tokens, given, expired>>

\* JWT_REFRESH_TTL runs out.
Expire(t) ==
    /\ t \in given
    /\ expired' = expired \cup {t}
    /\ UNCHANGED <<users, tokens, given, authStep, email, presented, replay>>

TokensNext ==
    \/ \E h \in Handlers :
          \/ \E e \in Emails : Register(h, e) \/ Login(h, e)
          \/ \E t \in Tokens : Refresh(h, t) \/ IssueToken(h, t)
          \/ InsertUser(h) \/ SelectUser(h)
          \/ SelectToken(h) \/ Consume(h) \/ AuthFails(h)
    \/ \E t \in Tokens : Expire(t)

TokensSpec == TokensInit /\ [][TokensNext]_authVars

-----------------------------------------------------------------------------
(* Properties. *)

\* A replay is rejected: no token was issued for one that was already used, or
\* had expired, when the request that presented it came in, whatever became of
\* the request that used it.  All the successors of a token are thus those of
\* requests that were there before the first of them had used it.
ReplayRejected == \A t \in Tokens : ~tokens[t].replay

\* "Enforces single-use rotation" (auth.service.ts:121).
SingleUse ==
    \A t, u \in Tokens :
        /\ tokens[t].state # "none" /\ tokens[t].parent # NoToken
        /\ tokens[u].state # "none"
        /\ tokens[t].parent = tokens[u].parent
        => t = u

=============================================================================
