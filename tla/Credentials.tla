----------------------------- MODULE Credentials -----------------------------
(***************************************************************************)
(* Access: the table api_tokens with issue_token, authorize and            *)
(* revoke_other_tokens (registry.py), the migration that moves the         *)
(* provider's keys from the environment file of the AI services to that of *)
(* this one and leaves fresh tokens there (migrate_ai_credentials.py), the *)
(* administrator's issue_token.py, and the callers of the API (api.py).    *)
(*                                                                         *)
(* The migration is a row of transactions and file replacements; it may be *)
(* killed between any two, and is started again.  Between two migrations   *)
(* the user may put a key into either file.  One runs at a time, and       *)
(* nobody edits the two files under its hands.                             *)
(***************************************************************************)
EXTENDS Integers, Sequences

CONSTANTS
  Keys,          \* ALPACA_KEYS
  GrantOf,       \* the scopes of the migration's principals, in its order
  Strategies,    \* strategy ids a signal token may be bound to
  Clients,       \* callers of the API
  MaxKeys,       \* bound: the last value a key takes
  MaxRotations,  \* bound: migrations nobody had to start
  MaxCrashes,    \* bound: migrations that are killed
  MaxExtras      \* bound: tokens the administrator issues

Scopes == {"signals:read", "features:read", "market-data:read", "market-data:write",
           "paper:read", "paper:write"}
NoStrategy == "none"
Principals == DOMAIN GrantOf

ASSUME CredentialsAssumption ==
  /\ NoStrategy \notin Strategies
  /\ GrantOf \in Seq(Scopes \ {"signals:read"})
  /\ MaxKeys \in Nat \ {0} /\ MaxRotations \in Nat /\ MaxCrashes \in Nat
  /\ MaxExtras \in Nat

VARIABLES
  tokens,     \* table api_tokens, in the order of issue; a token is its place
  ai,         \* the file --ai-env: its keys and its tokens; 0 is none
  cloud,      \* the keys in this service's .env
  stage,      \* what the migration does next: "idle", "issue", "revoke", "cloud", "ai"
  read,       \* the credentials it read
  fresh,      \* principal -> the token it issued
  left,       \* principals whose other tokens are still to be revoked
  request,    \* client -> the token and the need it was let through with, or NoRequest
  runs,       \* rotations and crashes so far
  latest,     \* history: key -> the value the user put last
  shadowed,   \* history: keys put last into this service's .env while that of the
              \* AI services had a value of them too
  settled,    \* history: the last migration came to its end
  aside       \* history: tokens the administrator issued since it began

migrationVars == <<stage, read, fresh, left>>
credentialVars == <<tokens, ai, cloud, migrationVars, request, runs, latest,
                    shadowed, settled, aside>>

Token == [principal : Principals, scope : Scopes, strategy : Strategies \cup {NoStrategy},
          revoked : BOOLEAN]
\* Mistake: a token for anything may name a strategy.
NeedAnyStrategy == [scope : Scopes, strategy : Strategies \cup {NoStrategy}]

\* Signals are read, and their tokens are issued, by strategy; nothing else is.
Need == [scope : Scopes \ {"signals:read"}, strategy : {NoStrategy}]
          \cup [scope : {"signals:read"}, strategy : Strategies]
NoRequest == [token |-> 0, need |-> [scope |-> "none", strategy |-> NoStrategy]]
Issued == DOMAIN tokens
Values == [Keys -> 0..MaxKeys]
NoToken == [p \in Principals |-> 0]
NoKeys == [k \in Keys |-> 0]

CredentialsTypeOK ==
  /\ tokens \in Seq(Token)
  /\ \A t \in Issued : tokens[t].scope = "signals:read" <=> tokens[t].strategy # NoStrategy
  /\ ai \in [keys : Values, tokens : [Principals -> Nat]]
  /\ cloud \in Values
  /\ stage \in {"idle", "issue", "revoke", "cloud", "ai"}
  /\ read \in Values
  /\ fresh \in [Principals -> Nat]
  /\ left \subseteq Principals
  /\ request \in [Clients -> [token : Nat, need : Need] \cup {NoRequest}]
  /\ runs \in [rotations : 0..MaxRotations, crashes : 0..MaxCrashes, extras : 0..MaxExtras]
  /\ latest \in Values
  /\ shadowed \subseteq Keys
  /\ settled \in BOOLEAN
  /\ aside \subseteq Nat
  /\ \A p \in Principals : {ai.tokens[p], fresh[p]} \subseteq Issued \cup {0}
  /\ \A c \in Clients : request[c].token \in Issued \cup {0}

\* No key has been put anywhere.
CredentialsInit ==
  /\ tokens = <<>>
  /\ latest = NoKeys
  /\ shadowed = {}
  /\ ai = [keys |-> NoKeys, tokens |-> NoToken]
  /\ cloud = NoKeys
  /\ stage = "idle"
  /\ read = NoKeys
  /\ fresh = NoToken
  /\ left = {}
  /\ request = [c \in Clients |-> NoRequest]
  /\ runs = [rotations |-> 0, crashes |-> 0, extras |-> 0]
  /\ settled = FALSE
  /\ aside = {}

\* The process of the migration is gone, with what it had in memory.
MigrationEnds ==
  /\ stage' = "idle"
  /\ read' = NoKeys
  /\ fresh' = NoToken
  /\ left' = {}

Valid(t) == t \in Issued /\ ~tokens[t].revoked

-----------------------------------------------------------------------------
(* The migration *)

\* Mistake: what this service has comes first.
CredentialsCloudFirst ==
  [k \in Keys |-> IF cloud[k] # 0 THEN cloud[k] ELSE ai.keys[k]]

CredentialsFound == [k \in Keys |-> IF ai.keys[k] # 0 THEN ai.keys[k] ELSE cloud[k]]

\* Mistake: what a killed migration left behind stops the next one.
BeginIfClean ==
  /\ stage = "idle"
  /\ settled \/ tokens = <<>>
  /\ read' = CredentialsFound
  /\ stage' = "issue"
  /\ fresh' = NoToken
  /\ left' = Principals
  /\ IF settled THEN runs.rotations < MaxRotations
                     /\ runs' = [runs EXCEPT !.rotations = @ + 1]
     ELSE UNCHANGED runs
  /\ settled' = FALSE
  /\ aside' = {}
  /\ UNCHANGED <<tokens, ai, cloud, request, latest, shadowed>>

\* Both files are read; a key that is in neither is a RuntimeError.  One that
\* nothing calls for is a rotation, one after a killed migration is not.
Begin ==
  /\ stage = "idle"
  /\ \A k \in Keys : CredentialsFound[k] # 0
  /\ read' = CredentialsFound
  /\ stage' = "issue"
  /\ fresh' = NoToken
  /\ left' = Principals
  /\ IF settled THEN runs.rotations < MaxRotations
                     /\ runs' = [runs EXCEPT !.rotations = @ + 1]
     ELSE UNCHANGED runs
  /\ settled' = FALSE
  /\ aside' = {}
  /\ UNCHANGED <<tokens, ai, cloud, request, latest, shadowed>>

Row(principal, scope, strategy) ==
  [principal |-> principal, scope |-> scope, strategy |-> strategy, revoked |-> FALSE]

\* issue_token, one principal after the other.
Issue(p) ==
  /\ stage = "issue"
  /\ fresh[p] = 0
  /\ \A q \in 1..p - 1 : fresh[q] # 0
  /\ tokens' = Append(tokens, Row(p, GrantOf[p], NoStrategy))
  /\ fresh' = [fresh EXCEPT ![p] = Len(tokens')]
  /\ stage' = IF \E q \in Principals : fresh'[q] = 0 THEN "issue" ELSE "revoke"
  /\ UNCHANGED <<ai, cloud, read, left, request, runs, latest, shadowed, settled, aside>>

\* Mistake: the token to be replaced is the one in the file.
RevokedKnown(p) ==
  [t \in Issued |-> IF t = ai.tokens[p] THEN [tokens[t] EXCEPT !.revoked = TRUE] ELSE tokens[t]]

\* revoke_other_tokens: orphans of killed migrations are among the others.
RevokedOthers(p) ==
  [t \in Issued |-> IF tokens[t].principal = p /\ t # fresh[p]
                    THEN [tokens[t] EXCEPT !.revoked = TRUE] ELSE tokens[t]]

Revoke(p) ==
  /\ stage = "revoke"
  /\ p \in left
  /\ \A q \in left : p <= q
  /\ tokens' = RevokedOthers(p)
  /\ left' = left \ {p}
  /\ stage' = IF left' = {} THEN "cloud" ELSE "revoke"
  /\ aside' = {t \in aside : tokens[t].principal # p}
  /\ UNCHANGED <<ai, cloud, read, fresh, request, runs, latest, shadowed, settled>>

\* _atomic of this service's .env: written aside, then renamed.
ReplaceCloud ==
  /\ stage = "cloud"
  /\ cloud' = read
  /\ stage' = "ai"
  /\ UNCHANGED <<tokens, ai, read, fresh, left, request, runs, latest, shadowed, settled, aside>>

\* Mistake: this file is replaced as soon as the tokens are there.
ReplaceAiFirst ==
  /\ stage \in {"cloud", "ai"}
  /\ ai' = [keys |-> NoKeys, tokens |-> fresh]
  /\ stage' = IF stage = "ai" THEN "idle" ELSE "cloud"
  /\ settled' = (stage = "ai")
  /\ UNCHANGED <<tokens, cloud, read, fresh, left, request, runs, latest, shadowed, aside>>

\* _atomic of the file of the AI services: the keys go, the tokens come.
ReplaceAi ==
  /\ stage = "ai"
  /\ ai' = [keys |-> NoKeys, tokens |-> fresh]
  /\ MigrationEnds
  /\ settled' = TRUE
  /\ UNCHANGED <<tokens, cloud, request, runs, latest, shadowed, aside>>

\* Killed, or the database or a file cannot be written.
Crash ==
  /\ stage # "idle"
  /\ runs.crashes < MaxCrashes
  /\ runs' = [runs EXCEPT !.crashes = @ + 1]
  /\ MigrationEnds
  /\ UNCHANGED <<tokens, ai, cloud, request, latest, shadowed, settled, aside>>

Migrate ==
  \/ \E p \in Principals : Issue(p) \/ Revoke(p)
  \/ ReplaceCloud \/ ReplaceAi

-----------------------------------------------------------------------------
(* Administrator, user and callers *)

\* issue_token.py: signal tokens, and no others, name a strategy.
IssueToken(p, need) ==
  /\ runs.extras < MaxExtras
  /\ runs' = [runs EXCEPT !.extras = @ + 1]
  /\ tokens' = Append(tokens, Row(p, need.scope, need.strategy))
  /\ aside' = aside \cup {Len(tokens')}
  /\ UNCHANGED <<ai, cloud, migrationVars, request, latest, shadowed, settled>>

\* The user puts a new key into the file of the AI services, where it used to be,
NewKey(k) ==
  /\ stage = "idle"
  /\ latest[k] < MaxKeys
  /\ latest' = [latest EXCEPT ![k] = @ + 1]
  /\ UNCHANGED <<tokens, migrationVars, request, runs, settled, aside>>

PutAiKey(k) ==
  /\ NewKey(k)
  /\ ai' = [ai EXCEPT !.keys[k] = latest'[k]]
  /\ shadowed' = shadowed \ {k}
  /\ UNCHANGED cloud

\* or into this service's .env, as .env.example and docs/API.md:785 have it.
PutCloudKey(k) ==
  /\ NewKey(k)
  /\ cloud' = [cloud EXCEPT ![k] = latest'[k]]
  /\ shadowed' = IF ai.keys[k] # 0 THEN shadowed \cup {k} ELSE shadowed \ {k}
  /\ UNCHANGED ai

\* Mistake: a token for signals is good for those of any strategy.
AuthorizesAnyStrategy(t, need) ==
  /\ Valid(t)
  /\ \/ tokens[t].scope = need.scope
     \/ tokens[t].scope = "paper:write" /\ need.scope = "paper:read"
     \/ tokens[t].scope = "market-data:write" /\ need.scope = "market-data:read"

\* authorize
Authorizes(t, need) ==
  /\ Valid(t)
  /\ \/ tokens[t].scope = need.scope
     \/ tokens[t].scope = "paper:write" /\ need.scope = "paper:read"
     \/ tokens[t].scope = "market-data:write" /\ need.scope = "market-data:read"
  /\ need.scope = "signals:read" => tokens[t].strategy = need.strategy

\* handle and prepare_market_stream ask once: a revocation reaches the next request.
Ask(c, t, need) ==
  /\ request[c] = NoRequest
  /\ Authorizes(t, need)
  /\ request' = [request EXCEPT ![c] = [token |-> t, need |-> need]]
  /\ UNCHANGED <<tokens, ai, cloud, migrationVars, runs, latest, shadowed, settled, aside>>

\* The answer is sent, or the stream ends.
Done(c) ==
  /\ request[c] # NoRequest
  /\ request' = [request EXCEPT ![c] = NoRequest]
  /\ UNCHANGED <<tokens, ai, cloud, migrationVars, runs, latest, shadowed, settled, aside>>

-----------------------------------------------------------------------------
CredentialsNext ==
  \/ Begin \/ Migrate \/ Crash
  \/ \E p \in Principals, need \in Need : IssueToken(p, need)
  \/ \E k \in Keys : PutAiKey(k) \/ PutCloudKey(k)
  \/ \E c \in Clients :
       \/ \E t \in Issued, need \in Need : Ask(c, t, need)
       \/ Done(c)

\* A migration that runs goes on, and one that was killed is started again.
CredentialsSpec ==
  /\ CredentialsInit
  /\ [][CredentialsNext]_credentialVars
  /\ WF_credentialVars(Migrate)
  /\ WF_credentialVars(~settled /\ Begin)

-----------------------------------------------------------------------------
\* Wherever the migration is killed, the key the user put last is the one the next
\* migration finds: the copy in the file of the AI services goes when this service's
\* .env has the key, and not before.  A key that was put into .env over an older copy
\* in the other file is excepted: the next migration takes the old one and loses it.
\* (migrate_ai_credentials.py:70-78, 99-119)
KeysNeverLost == \A k \in Keys \ shadowed : CredentialsFound[k] = latest[k]

\* Once a migration came to its end, the tokens in the file of the AI services
\* are good, each with the scope of its principal, until the next one begins; and
\* they are the only ones: what earlier migrations issued has ended, the killed ones
\* included, and only what the administrator issued since is left beside them.
\* (migrate_ai_credentials.py:87-98, registry.py:441-461)
MigratedTokensWork ==
  settled =>
    /\ \A p \in Principals : /\ Valid(ai.tokens[p])
                             /\ tokens[ai.tokens[p]].principal = p
                             /\ tokens[ai.tokens[p]].scope = GrantOf[p]
    /\ \A t \in Issued : Valid(t) => t \in aside \/ t = ai.tokens[tokens[t].principal]

\* docs/API.md:87-96: what each scope may call.
Documented(scope) ==
  CASE scope = "paper:write" -> {"paper:read", "paper:write"}
    [] scope = "market-data:write" -> {"market-data:read", "market-data:write"}
    [] OTHER -> {scope}

\* A request passes only with a token that has not been revoked by then, and whose
\* scope lists it in that table; a signal token reaches its own strategy.
\* (registry.py:412-439, api.py:301-330, 350-487)
OnlyDocumentedAccess ==
  [][\A c \in Clients : request[c] = NoRequest /\ request'[c] # NoRequest =>
       /\ Valid(request'[c].token)
       /\ request'[c].need.scope \in Documented(tokens[request'[c].token].scope)
       /\ request'[c].need.strategy = tokens[request'[c].token].strategy]_credentialVars

\* A migration killed after it revoked the tokens in use, and before it left the
\* new ones, locks the AI services out.  Started again, it lets them in.
\* (migrate_ai_credentials.py:90-119)
AccessComesBack ==
  stage # "idle" ~> \A p \in Principals : Valid(ai.tokens[p])
=============================================================================
