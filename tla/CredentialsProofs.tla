-------------------------- MODULE CredentialsProofs --------------------------
(***************************************************************************)
(* TLAPS proofs about Credentials, for any keys, principals, callers and   *)
(* bounds.                                                                 *)
(*                                                                         *)
(* That a key is in one of the two files is not inductive: ReplaceCloud    *)
(* may overwrite it.  KeysInv adds that, but for shadowed keys, the file   *)
(* of the AI services never has an old one and that what the migration     *)
(* read is still the newest.                                               *)
(* ProgressInv and OnlyInv follow the tokens through its stages.           *)
(***************************************************************************)
EXTENDS Credentials, SequenceTheorems, TLAPS

USE CredentialsAssumption

Good(p) ==
  /\ fresh[p] \in Issued
  /\ ~tokens[fresh[p]].revoked
  /\ tokens[fresh[p]].principal = p
  /\ tokens[fresh[p]].scope = GrantOf[p]

KeysInv == \A k \in Keys \ shadowed :
  /\ ai.keys[k] \in {0, latest[k]}
  /\ ai.keys[k] = 0 => cloud[k] = latest[k]
  /\ stage \in {"issue", "revoke", "cloud"} => read[k] = latest[k]
  /\ stage = "ai" => cloud[k] = latest[k]

ProgressInv ==
  /\ stage # "idle" => \A p \in Principals : fresh[p] # 0 => Good(p)
  /\ stage \in {"revoke", "cloud", "ai"} => \A p \in Principals : fresh[p] # 0
  /\ stage = "issue" => left = Principals
  /\ stage \in {"cloud", "ai"} => left = {}
  /\ settled => stage = "idle"

\* A valid token is one the migration is going to keep, or to revoke.
OnlyInv ==
  stage \in {"revoke", "cloud", "ai"} => \A t \in Issued :
    Valid(t) => \/ t \in aside \/ t = fresh[tokens[t].principal]
                \/ tokens[t].principal \in left

TokensInv == ProgressInv /\ OnlyInv /\ MigratedTokensWork

Runs == [rotations : 0..MaxRotations, crashes : 0..MaxCrashes, extras : 0..MaxExtras]

-----------------------------------------------------------------------------
\* issue_token adds one row behind those that are there.
LEMMA TokenAppended ==
  ASSUME CredentialsTypeOK, NEW p \in Principals, NEW scope \in Scopes,
         NEW strategy \in Strategies \cup {NoStrategy},
         scope = "signals:read" <=> strategy # NoStrategy,
         tokens' = Append(tokens, Row(p, scope, strategy))
  PROVE  /\ tokens' \in Seq(Token)
         /\ Len(tokens') = Len(tokens) + 1
         /\ Issued' = Issued \cup {Len(tokens')}
         /\ Len(tokens') \notin Issued
         /\ \A t \in Issued : tokens'[t] = tokens[t]
         /\ tokens'[Len(tokens')] = Row(p, scope, strategy)
         /\ \A t \in Issued' : tokens'[t].scope = "signals:read" <=> tokens'[t].strategy # NoStrategy
<1>1. Row(p, scope, strategy) \in Token
  BY DEF Row, Token
<1>2. tokens \in Seq(Token) /\ Len(tokens) \in Nat /\ Issued = 1..Len(tokens)
  BY DEF CredentialsTypeOK, Issued
<1>3. tokens' \in Seq(Token) /\ Len(tokens') = Len(tokens) + 1
  BY <1>1, <1>2
<1>4. Issued' = 1..Len(tokens')
  BY <1>3 DEF Issued
<1>5. /\ Issued' = Issued \cup {Len(tokens')} /\ Len(tokens') \notin Issued
  BY <1>2, <1>3, <1>4
<1>6. \A t \in Issued : tokens'[t] = tokens[t]
  BY <1>1, <1>2
<1>7. tokens'[Len(tokens')] = Row(p, scope, strategy)
  BY <1>1, <1>2, <1>3
<1>8. ASSUME NEW t \in Issued'
      PROVE  tokens'[t].scope = "signals:read" <=> tokens'[t].strategy # NoStrategy
  <2>1. CASE t \in Issued
    BY <2>1, <1>6 DEF CredentialsTypeOK
  <2>2. CASE t = Len(tokens')
    BY <2>2, <1>7 DEF Row
  <2> QED
    BY <1>5, <2>1, <2>2
<1> QED
  BY <1>3, <1>5, <1>6, <1>7, <1>8

\* revoke_other_tokens changes nothing but the revocations.
LEMMA TokensRevoked ==
  ASSUME CredentialsTypeOK, NEW p \in Principals, tokens' = RevokedOthers(p)
  PROVE  /\ tokens' \in Seq(Token)
         /\ Issued' = Issued
         /\ \A t \in Issued :
              /\ tokens'[t].principal = tokens[t].principal
              /\ tokens'[t].scope = tokens[t].scope
              /\ tokens'[t].strategy = tokens[t].strategy
              /\ tokens'[t].revoked = (tokens[t].revoked
                                         \/ (tokens[t].principal = p /\ t # fresh[p]))
<1>1. tokens \in Seq(Token) /\ Len(tokens) \in Nat /\ Issued = 1..Len(tokens)
  BY DEF CredentialsTypeOK, Issued
<1>2. \A t \in Issued : tokens[t] \in Token
  BY <1>1
<1>3. \A t \in Issued : [tokens[t] EXCEPT !.revoked = TRUE] \in Token
  BY <1>2 DEF Token
<1>4. tokens' \in [1..Len(tokens) -> Token]
  BY <1>1, <1>2, <1>3 DEF RevokedOthers
<1>5. tokens' \in Seq(Token)
  BY <1>1, <1>4, SeqDef
<1>6. Issued' = Issued
  BY <1>1, <1>4 DEF Issued
<1>7. ASSUME NEW t \in Issued
      PROVE  /\ tokens'[t].principal = tokens[t].principal
             /\ tokens'[t].scope = tokens[t].scope
             /\ tokens'[t].strategy = tokens[t].strategy
             /\ tokens'[t].revoked = (tokens[t].revoked
                                        \/ (tokens[t].principal = p /\ t # fresh[p]))
  <2>1. tokens[t] \in Token
    BY <1>2
  <2>2. tokens'[t] = IF tokens[t].principal = p /\ t # fresh[p]
                     THEN [tokens[t] EXCEPT !.revoked = TRUE] ELSE tokens[t]
    BY <1>1 DEF RevokedOthers
  <2>3. CASE tokens[t].principal = p /\ t # fresh[p]
    BY <2>1, <2>2, <2>3 DEF Token
  <2>4. CASE ~(tokens[t].principal = p /\ t # fresh[p])
    BY <2>1, <2>2, <2>4 DEF Token
  <2> QED
    BY <2>3, <2>4
<1> QED
  BY <1>5, <1>6, <1>7

-----------------------------------------------------------------------------
\* The files hold keys and tokens, and no token is numbered before it is issued,
\* before the first migration
THEOREM CredentialsTypeInit == CredentialsInit => CredentialsTypeOK
<1> SUFFICES ASSUME CredentialsInit PROVE CredentialsTypeOK
  OBVIOUS
<1>1. tokens \in Seq(Token) /\ Issued = {}
  BY DEF CredentialsInit, Issued
<1>2. /\ ai \in [keys : Values, tokens : [Principals -> Nat]]
      /\ cloud \in Values /\ read \in Values /\ latest \in Values
      /\ fresh \in [Principals -> Nat]
  BY DEF CredentialsInit, Values, NoToken, NoKeys
<1>3. \A p \in Principals : {ai.tokens[p], fresh[p]} \subseteq Issued \cup {0}
  BY DEF CredentialsInit, NoToken
<1>4. \A c \in Clients : request[c].token \in Issued \cup {0}
  BY DEF CredentialsInit, NoRequest
<1>5. runs \in Runs
  BY DEF CredentialsInit, Runs
<1>6. \A t \in Issued : tokens[t].scope = "signals:read" <=> tokens[t].strategy # NoStrategy
  BY <1>1
<1>7. request \in [Clients -> [token : Nat, need : Need] \cup {NoRequest}]
  BY DEF CredentialsInit
<1> QED
  BY <1>1, <1>2, <1>3, <1>4, <1>5, <1>6, <1>7 DEF CredentialsInit, CredentialsTypeOK, Runs

\* and after every step of the migration, the administrator and the services.
LEMMA CredentialsTypeStep ==
  CredentialsTypeOK /\ [CredentialsNext]_credentialVars => CredentialsTypeOK'
<1> SUFFICES ASSUME CredentialsTypeOK, [CredentialsNext]_credentialVars
             PROVE  CredentialsTypeOK'
  OBVIOUS
<1> USE DEF migrationVars
<1>1. CASE Begin
  <2>1. read' \in Values
    BY <1>1 DEF Begin, CredentialsFound, CredentialsTypeOK, Values
  <2>2. fresh' \in [Principals -> Nat] /\ \A p \in Principals : fresh'[p] = 0
    BY <1>1 DEF Begin, NoToken
  <2>3. runs' \in Runs
    <3>1. runs \in Runs
      BY DEF CredentialsTypeOK, Runs
    <3>2. CASE settled
      <4>1. runs.rotations + 1 \in 0..MaxRotations
        BY <1>1, <3>1, <3>2 DEF Begin, Runs
      <4>2. runs' = [runs EXCEPT !.rotations = runs.rotations + 1]
        BY <1>1, <3>2 DEF Begin
      <4> QED
        BY <3>1, <4>1, <4>2 DEF Runs
    <3>3. CASE ~settled
      BY <1>1, <3>1, <3>3 DEF Begin
    <3> QED
      BY <3>2, <3>3
  <2> QED
    BY <1>1, <2>1, <2>2, <2>3 DEF Begin, CredentialsTypeOK, Issued, Runs
<1>2. ASSUME NEW p \in Principals, Issue(p) PROVE CredentialsTypeOK'
  <2>1. GrantOf[p] \in Scopes \ {"signals:read"}
    BY DEF Principals
  <2>2. tokens' = Append(tokens, Row(p, GrantOf[p], NoStrategy))
    BY <1>2 DEF Issue
  <2>3. /\ tokens' \in Seq(Token) /\ Issued' = Issued \cup {Len(tokens')}
        /\ Len(tokens') \in Nat
        /\ \A t \in Issued' : tokens'[t].scope = "signals:read" <=> tokens'[t].strategy # NoStrategy
    <3>1. /\ GrantOf[p] \in Scopes /\ NoStrategy \in Strategies \cup {NoStrategy}
          /\ GrantOf[p] = "signals:read" <=> NoStrategy # NoStrategy
      BY <2>1
    <3> QED
      BY <2>2, <3>1, TokenAppended, LenProperties
  <2>4. fresh' \in [Principals -> Nat]
    BY <1>2, <2>3 DEF Issue, CredentialsTypeOK
  <2>5. \A q \in Principals : {ai'.tokens[q], fresh'[q]} \subseteq Issued' \cup {0}
    BY <1>2, <2>3 DEF Issue, CredentialsTypeOK
  <2> QED
    BY <1>2, <2>3, <2>4, <2>5 DEF Issue, CredentialsTypeOK
<1>3. ASSUME NEW p \in Principals, Revoke(p) PROVE CredentialsTypeOK'
  <2>1. tokens' = RevokedOthers(p)
    BY <1>3 DEF Revoke
  <2>2. /\ tokens' \in Seq(Token) /\ Issued' = Issued
        /\ \A t \in Issued' : tokens'[t].scope = "signals:read" <=> tokens'[t].strategy # NoStrategy
    <3>1. \A t \in Issued : tokens[t].scope = "signals:read" <=> tokens[t].strategy # NoStrategy
      BY DEF CredentialsTypeOK
    <3>2. /\ tokens' \in Seq(Token) /\ Issued' = Issued
          /\ \A t \in Issued : /\ tokens'[t].scope = tokens[t].scope
                               /\ tokens'[t].strategy = tokens[t].strategy
      BY <2>1, TokensRevoked
    <3> QED
      BY <3>1, <3>2
  <2> QED
    BY <1>3, <2>2 DEF Revoke, CredentialsTypeOK
<1>4. CASE ReplaceCloud
  BY <1>4 DEF ReplaceCloud, CredentialsTypeOK, Issued
<1>5. CASE ReplaceAi
  <2>1. ai' \in [keys : Values, tokens : [Principals -> Nat]] /\ ai'.tokens = fresh
    BY <1>5 DEF ReplaceAi, CredentialsTypeOK, Values, NoKeys
  <2>2. read' \in Values /\ fresh' \in [Principals -> Nat]
        /\ \A p \in Principals : fresh'[p] = 0
    BY <1>5 DEF ReplaceAi, MigrationEnds, Values, NoKeys, NoToken
  <2> QED
    BY <1>5, <2>1, <2>2 DEF ReplaceAi, MigrationEnds, CredentialsTypeOK, Issued
<1>6. CASE Crash
  <2>1. runs \in Runs
    BY DEF CredentialsTypeOK, Runs
  <2>2. runs.crashes + 1 \in 0..MaxCrashes /\ runs' = [runs EXCEPT !.crashes = runs.crashes + 1]
    BY <1>6, <2>1 DEF Crash, Runs
  <2>3. runs' \in Runs
    BY <2>1, <2>2 DEF Runs
  <2>4. read' \in Values /\ fresh' \in [Principals -> Nat]
        /\ \A p \in Principals : fresh'[p] = 0
    BY <1>6 DEF Crash, MigrationEnds, Values, NoKeys, NoToken
  <2> QED
    BY <1>6, <2>3, <2>4 DEF Crash, MigrationEnds, CredentialsTypeOK, Issued, Runs
<1>7. ASSUME NEW p \in Principals, NEW need \in Need, IssueToken(p, need)
      PROVE  CredentialsTypeOK'
  <2>1. /\ need.scope \in Scopes /\ need.strategy \in Strategies \cup {NoStrategy}
        /\ need.scope = "signals:read" <=> need.strategy # NoStrategy
    BY DEF Need, Scopes
  <2>2. tokens' = Append(tokens, Row(p, need.scope, need.strategy))
    BY <1>7 DEF IssueToken
  <2>3. /\ tokens' \in Seq(Token) /\ Issued' = Issued \cup {Len(tokens')}
        /\ Len(tokens') \in Nat
        /\ \A t \in Issued' : tokens'[t].scope = "signals:read" <=> tokens'[t].strategy # NoStrategy
    BY <2>1, <2>2, TokenAppended, LenProperties
  <2>4. runs' \in Runs
    <3>1. runs \in Runs
      BY DEF CredentialsTypeOK, Runs
    <3>2. runs.extras + 1 \in 0..MaxExtras /\ runs' = [runs EXCEPT !.extras = runs.extras + 1]
      BY <1>7, <3>1 DEF IssueToken, Runs
    <3> QED
      BY <3>1, <3>2 DEF Runs
  <2> QED
    BY <1>7, <2>3, <2>4 DEF IssueToken, CredentialsTypeOK, Runs
<1>8. ASSUME NEW k \in Keys, PutAiKey(k) \/ PutCloudKey(k) PROVE CredentialsTypeOK'
  <2>0. NewKey(k) /\ latest \in [Keys -> 0..MaxKeys]
    BY <1>8 DEF PutAiKey, PutCloudKey, CredentialsTypeOK, Values
  <2>1. latest' \in Values /\ latest'[k] \in 0..MaxKeys
    BY <2>0 DEF NewKey, Values
  <2>2. ai' \in [keys : Values, tokens : [Principals -> Nat]] /\ ai'.tokens = ai.tokens
    <3>1. ai \in [keys : Values, tokens : [Principals -> Nat]]
      BY DEF CredentialsTypeOK
    <3>2. CASE PutAiKey(k)
      <4>1. ai' = [ai EXCEPT !.keys = [ai.keys EXCEPT ![k] = latest'[k]]]
        BY <3>1, <3>2 DEF PutAiKey
      <4>2. [ai.keys EXCEPT ![k] = latest'[k]] \in Values
        BY <2>1, <3>1 DEF Values
      <4> QED
        BY <3>1, <4>1, <4>2
    <3>3. CASE PutCloudKey(k)
      BY <3>1, <3>3 DEF PutCloudKey
    <3> QED
      BY <1>8, <3>2, <3>3
  <2>3. cloud' \in Values /\ shadowed' \subseteq Keys
    BY <1>8, <2>1 DEF PutAiKey, PutCloudKey, CredentialsTypeOK, Values
  <2> QED
    BY <1>8, <2>1, <2>2, <2>3 DEF PutAiKey, PutCloudKey, NewKey, CredentialsTypeOK, Issued
<1>9. ASSUME NEW c \in Clients, NEW t \in Issued, NEW need \in Need, Ask(c, t, need)
      PROVE  CredentialsTypeOK'
  <2>1. t \in Nat
    BY DEF Issued, CredentialsTypeOK
  <2>2. request' \in [Clients -> [token : Nat, need : Need] \cup {NoRequest}]
    BY <1>9, <2>1 DEF Ask, CredentialsTypeOK
  <2>3. \A d \in Clients : request'[d].token \in Issued' \cup {0}
    BY <1>9, <2>1 DEF Ask, CredentialsTypeOK, Issued
  <2> QED
    BY <1>9, <2>2, <2>3 DEF Ask, CredentialsTypeOK, Issued
<1>10. ASSUME NEW c \in Clients, Done(c) PROVE CredentialsTypeOK'
  BY <1>10 DEF Done, CredentialsTypeOK, Issued, NoRequest
<1>11. CASE UNCHANGED credentialVars
  BY <1>11 DEF credentialVars, CredentialsTypeOK, Issued
<1> QED
  BY <1>1, <1>2, <1>3, <1>4, <1>5, <1>6, <1>7, <1>8, <1>9, <1>10, <1>11
     DEF CredentialsNext, Migrate

\* The registry and the credential files (registry.py:384-461,
\* migrate_ai_credentials.py:62-121) only ever have values of their types.
THEOREM CredentialsAlwaysTyped == CredentialsSpec => []CredentialsTypeOK
  BY CredentialsTypeInit, CredentialsTypeStep, PTL DEF CredentialsSpec

-----------------------------------------------------------------------------
\* The keys: which step may change what KeysInv is about.
LEMMA KeysStep ==
  CredentialsTypeOK /\ KeysInv /\ [CredentialsNext]_credentialVars => KeysInv'
<1> SUFFICES ASSUME CredentialsTypeOK, KeysInv, [CredentialsNext]_credentialVars
             PROVE  KeysInv'
  OBVIOUS
<1>1. CASE Begin
  <2>1. \A k \in Keys \ shadowed : read'[k] = latest[k]
    BY <1>1 DEF Begin, KeysInv, CredentialsFound
  <2> QED
    BY <1>1, <2>1 DEF Begin, KeysInv
<1>2. ASSUME NEW p \in Principals, Issue(p) PROVE KeysInv'
  BY <1>2 DEF Issue, KeysInv
<1>3. ASSUME NEW p \in Principals, Revoke(p) PROVE KeysInv'
  BY <1>3 DEF Revoke, KeysInv
<1>4. CASE ReplaceCloud
  BY <1>4 DEF ReplaceCloud, KeysInv
<1>5. CASE ReplaceAi
  <2>1. \A k \in Keys : ai'.keys[k] = 0
    BY <1>5 DEF ReplaceAi, NoKeys
  <2> QED
    BY <1>5, <2>1 DEF ReplaceAi, MigrationEnds, KeysInv
<1>6. CASE Crash
  BY <1>6 DEF Crash, MigrationEnds, KeysInv
<1>7. ASSUME NEW p \in Principals, NEW need \in Need, IssueToken(p, need) PROVE KeysInv'
  BY <1>7 DEF IssueToken, KeysInv, migrationVars
<1>8. ASSUME NEW key \in Keys, PutAiKey(key) \/ PutCloudKey(key) PROVE KeysInv'
  <2>1. /\ latest \in Values /\ ai.keys \in Values /\ cloud \in Values
        /\ ai \in [keys : Values, tokens : [Principals -> Nat]]
    BY DEF CredentialsTypeOK
  <2>2. latest' = [latest EXCEPT ![key] = latest[key] + 1] /\ stage' = "idle"
    BY <1>8 DEF PutAiKey, PutCloudKey, NewKey, migrationVars
  <2>3. \A k \in Keys \ {key} : latest'[k] = latest[k]
    BY <2>1, <2>2 DEF Values
  <2>4. CASE PutAiKey(key)
    <3>1. /\ ai'.keys = [ai.keys EXCEPT ![key] = latest'[key]]
          /\ shadowed' = shadowed \ {key} /\ cloud' = cloud
      BY <2>1, <2>4 DEF PutAiKey
    <3>2. ai'.keys[key] = latest'[key] /\ latest'[key] # 0
      BY <2>1, <2>2, <3>1 DEF Values
    <3>3. \A k \in Keys \ {key} : ai'.keys[k] = ai.keys[k]
      BY <2>1, <3>1 DEF Values
    <3> QED
      BY <2>2, <2>3, <3>1, <3>2, <3>3 DEF KeysInv
  <2>5. CASE PutCloudKey(key)
    <3>1. /\ cloud' = [cloud EXCEPT ![key] = latest'[key]] /\ ai' = ai
          /\ shadowed' = IF ai.keys[key] # 0 THEN shadowed \cup {key} ELSE shadowed \ {key}
      BY <2>5 DEF PutCloudKey
    <3>2. cloud'[key] = latest'[key] /\ \A k \in Keys \ {key} : cloud'[k] = cloud[k]
      BY <2>1, <3>1 DEF Values
    <3>3. key \notin shadowed' => ai'.keys[key] = 0
      BY <3>1
    <3> QED
      BY <2>2, <2>3, <3>1, <3>2, <3>3 DEF KeysInv
  <2> QED
    BY <1>8, <2>4, <2>5
<1>9. ASSUME NEW c \in Clients, NEW t \in Issued, NEW need \in Need, Ask(c, t, need)
      PROVE  KeysInv'
  BY <1>9 DEF Ask, KeysInv, migrationVars
<1>10. ASSUME NEW c \in Clients, Done(c) PROVE KeysInv'
  BY <1>10 DEF Done, KeysInv, migrationVars
<1>11. CASE UNCHANGED credentialVars
  BY <1>11 DEF credentialVars, KeysInv, migrationVars
<1> QED
  BY <1>1, <1>2, <1>3, <1>4, <1>5, <1>6, <1>7, <1>8, <1>9, <1>10, <1>11
     DEF CredentialsNext, Migrate

\* Wherever the migration is killed, and whichever file a new key is put into, the
\* next one finds the key put last unless it is shadowed: for any keys, any number
\* of migrations, kills and new keys.  (migrate_ai_credentials.py:70-119)
THEOREM KeysAreNeverLost == CredentialsSpec => []KeysNeverLost
<1>1. CredentialsInit => CredentialsTypeOK /\ KeysInv
  <2>1. CredentialsInit => KeysInv
    <3> SUFFICES ASSUME CredentialsInit PROVE KeysInv
      OBVIOUS
    <3>1. ai.keys = NoKeys /\ cloud = NoKeys /\ latest = NoKeys /\ stage = "idle"
      BY DEF CredentialsInit
    <3>2. \A k \in Keys : NoKeys[k] = 0
      BY DEF NoKeys
    <3> QED
      BY <3>1, <3>2 DEF KeysInv
  <2> QED
    BY <2>1, CredentialsTypeInit
<1>2. CredentialsTypeOK /\ KeysInv => KeysNeverLost
  BY DEF KeysInv, KeysNeverLost, CredentialsFound
<1> QED
  BY <1>1, <1>2, CredentialsTypeStep, KeysStep, PTL DEF CredentialsSpec

-----------------------------------------------------------------------------
\* A step that leaves the tokens, or adds one of the administrator, and changes
\* nothing else of the migration keeps TokensInv.
LEMMA TokensKept ==
  ASSUME CredentialsTypeOK, TokensInv, UNCHANGED <<stage, fresh, left, settled>>,
         ai'.tokens = ai.tokens,
         \/ UNCHANGED <<tokens, aside>>
         \/ /\ Issued' = Issued \cup {Len(tokens')}
            /\ Len(tokens') \notin Issued
            /\ \A t \in Issued : tokens'[t] = tokens[t]
            /\ aside' = aside \cup {Len(tokens')}
  PROVE  TokensInv'
<1>1. CASE UNCHANGED <<tokens, aside>>
  BY <1>1 DEF TokensInv, ProgressInv, OnlyInv, MigratedTokensWork, Good, Valid, Issued
<1>2. CASE /\ Issued' = Issued \cup {Len(tokens')}
           /\ Len(tokens') \notin Issued
           /\ \A t \in Issued : tokens'[t] = tokens[t]
           /\ aside' = aside \cup {Len(tokens')}
  <2>1. ProgressInv'
    BY <1>2 DEF TokensInv, ProgressInv, Good
  <2>2. OnlyInv'
    BY <1>2 DEF TokensInv, OnlyInv, Valid
  <2>3. MigratedTokensWork'
    BY <1>2 DEF TokensInv, MigratedTokensWork, Valid
  <2> QED
    BY <2>1, <2>2, <2>3 DEF TokensInv
<1> QED
  BY <1>1, <1>2

\* A migration starts with tokens it has not issued.
LEMMA TokensBegin ==
  ASSUME CredentialsTypeOK, TokensInv, Begin
  PROVE  TokensInv'
<1>1. \A p \in Principals : fresh'[p] = 0
  BY DEF Begin, NoToken
<1>2. stage' = "issue" /\ left' = Principals /\ settled' = FALSE
  BY DEF Begin
<1> QED
  BY <1>1, <1>2 DEF TokensInv, ProgressInv, OnlyInv, MigratedTokensWork

\* The token it issues for a principal works.
LEMMA TokensIssue ==
  ASSUME CredentialsTypeOK, TokensInv, NEW p \in Principals, Issue(p)
  PROVE  TokensInv'
<1>1. /\ GrantOf[p] \in Scopes /\ NoStrategy \in Strategies \cup {NoStrategy}
      /\ GrantOf[p] = "signals:read" <=> NoStrategy # NoStrategy
  BY DEF Principals
<1>2. /\ Issued' = Issued \cup {Len(tokens')} /\ Len(tokens') \notin Issued
      /\ \A t \in Issued : tokens'[t] = tokens[t]
      /\ tokens'[Len(tokens')] = Row(p, GrantOf[p], NoStrategy)
  BY <1>1, TokenAppended DEF Issue
<1>3. fresh' = [fresh EXCEPT ![p] = Len(tokens')] /\ stage = "issue"
      /\ fresh \in [Principals -> Nat]
  BY DEF Issue, CredentialsTypeOK
<1>4. UNCHANGED <<left, settled>> /\ stage' \in {"issue", "revoke"}
      /\ (stage' = "revoke" => \A q \in Principals : fresh'[q] # 0)
  BY DEF Issue
<1>5. ASSUME NEW q \in Principals, fresh'[q] # 0 PROVE Good(q)'
  <2>1. CASE q = p
    BY <1>2, <1>3, <2>1 DEF Good, Row
  <2>2. CASE q # p
    <3>1. Good(q) /\ fresh'[q] = fresh[q]
      BY <1>3, <1>5, <2>2 DEF TokensInv, ProgressInv
    <3> QED
      BY <1>2, <3>1 DEF Good
  <2> QED
    BY <2>1, <2>2
<1>6. left = Principals /\ ~settled
  BY <1>3 DEF TokensInv, ProgressInv
<1>7. ProgressInv'
  BY <1>4, <1>5, <1>6 DEF ProgressInv
<1>8. \A t \in Issued' : tokens'[t].principal \in Principals
  <2>1. \A t \in Issued : tokens[t] \in Token
    BY DEF CredentialsTypeOK, Issued
  <2> QED
    BY <1>2, <2>1 DEF Token, Row
<1>9. OnlyInv'
  BY <1>4, <1>6, <1>8 DEF OnlyInv
<1> QED
  BY <1>4, <1>6, <1>7, <1>9 DEF TokensInv, MigratedTokensWork

\* It revokes the others of a principal, and not the one it has issued.
LEMMA TokensRevoke ==
  ASSUME CredentialsTypeOK, TokensInv, NEW p \in Principals, Revoke(p)
  PROVE  TokensInv'
<1>1. /\ Issued' = Issued
      /\ \A t \in Issued :
           /\ tokens'[t].principal = tokens[t].principal
           /\ tokens'[t].scope = tokens[t].scope
           /\ tokens'[t].revoked = (tokens[t].revoked
                                      \/ (tokens[t].principal = p /\ t # fresh[p]))
  BY TokensRevoked DEF Revoke
<1>2. /\ stage = "revoke" /\ stage' \in {"revoke", "cloud"} /\ left' = left \ {p}
      /\ stage' = "cloud" => left' = {}
      /\ UNCHANGED <<fresh, settled>>
      /\ aside' = {t \in aside : tokens[t].principal # p}
  BY DEF Revoke
<1>3. \A q \in Principals : fresh[q] # 0 /\ Good(q)
  BY <1>2 DEF TokensInv, ProgressInv
<1>4. ASSUME NEW q \in Principals PROVE Good(q)'
  <2>1. fresh[q] \in Issued /\ ~tokens[fresh[q]].revoked
        /\ tokens[fresh[q]].principal = q /\ tokens[fresh[q]].scope = GrantOf[q]
    BY <1>3 DEF Good
  <2>2. ~(tokens[fresh[q]].principal = p /\ fresh[q] # fresh[p])
    BY <2>1
  <2>3. ~tokens'[fresh[q]].revoked
    BY <1>1, <2>1, <2>2
  <2> QED
    BY <1>1, <1>2, <2>1, <2>3 DEF Good
<1>5. ~settled
  BY <1>2 DEF TokensInv, ProgressInv
<1>6. ProgressInv'
  BY <1>2, <1>3, <1>4, <1>5 DEF ProgressInv
<1>7. ASSUME NEW t \in Issued, Valid(t)'
      PROVE  \/ t \in aside' \/ t = fresh'[tokens'[t].principal]
             \/ tokens'[t].principal \in left'
  <2>1. ~tokens[t].revoked /\ ~(tokens[t].principal = p /\ t # fresh[p])
    BY <1>1, <1>7 DEF Valid
  <2>2. \/ t \in aside \/ t = fresh[tokens[t].principal] \/ tokens[t].principal \in left
    BY <1>2, <2>1 DEF TokensInv, OnlyInv, Valid
  <2> QED
    BY <1>1, <1>2, <2>1, <2>2
<1>8. OnlyInv'
  BY <1>1, <1>7 DEF OnlyInv
<1> QED
  BY <1>2, <1>5, <1>6, <1>8 DEF TokensInv, MigratedTokensWork

\* No step, of whichever process, breaks TokensInv.
LEMMA TokensStep ==
  CredentialsTypeOK /\ TokensInv /\ [CredentialsNext]_credentialVars => TokensInv'
<1> SUFFICES ASSUME CredentialsTypeOK, TokensInv, [CredentialsNext]_credentialVars
             PROVE  TokensInv'
  OBVIOUS
<1> USE DEF migrationVars
<1>1. CASE Begin
  BY <1>1, TokensBegin
<1>2. ASSUME NEW p \in Principals, Issue(p) PROVE TokensInv'
  BY <1>2, TokensIssue
<1>3. ASSUME NEW p \in Principals, Revoke(p) PROVE TokensInv'
  BY <1>3, TokensRevoke
<1>4. CASE ReplaceCloud
  <2>1. /\ stage = "cloud" /\ stage' = "ai"
        /\ UNCHANGED <<tokens, ai, fresh, left, settled, aside>>
    BY <1>4 DEF ReplaceCloud
  <2> QED
    BY <2>1 DEF TokensInv, ProgressInv, OnlyInv, MigratedTokensWork, Good, Valid, Issued
<1>5. CASE ReplaceAi
  <2>1. /\ stage = "ai" /\ stage' = "idle" /\ ai'.tokens = fresh
        /\ UNCHANGED <<tokens, aside>>
    BY <1>5 DEF ReplaceAi, MigrationEnds
  <2>2. left = {} /\ \A p \in Principals : fresh[p] # 0 /\ Good(p)
    BY <2>1 DEF TokensInv, ProgressInv
  <2>3. \A t \in Issued : Valid(t) => t \in aside \/ t = fresh[tokens[t].principal]
    BY <2>1, <2>2 DEF TokensInv, OnlyInv
  <2>4. MigratedTokensWork'
    BY <2>1, <2>2, <2>3 DEF MigratedTokensWork, Good, Valid, Issued
  <2> QED
    BY <2>1, <2>4 DEF TokensInv, ProgressInv, OnlyInv
<1>6. CASE Crash
  <2>1. /\ stage # "idle" /\ stage' = "idle" /\ UNCHANGED settled
    BY <1>6 DEF Crash, MigrationEnds
  <2>2. ~settled
    BY <2>1 DEF TokensInv, ProgressInv
  <2> QED
    BY <2>1, <2>2 DEF TokensInv, ProgressInv, OnlyInv, MigratedTokensWork
<1>7. ASSUME NEW p \in Principals, NEW need \in Need, IssueToken(p, need) PROVE TokensInv'
  <2>1. /\ need.scope \in Scopes /\ need.strategy \in Strategies \cup {NoStrategy}
        /\ need.scope = "signals:read" <=> need.strategy # NoStrategy
    BY DEF Need, Scopes
  <2>2. /\ Issued' = Issued \cup {Len(tokens')} /\ Len(tokens') \notin Issued
        /\ \A t \in Issued : tokens'[t] = tokens[t]
    BY <1>7, <2>1, TokenAppended DEF IssueToken
  <2>3. /\ UNCHANGED <<stage, fresh, left, settled>> /\ ai'.tokens = ai.tokens
        /\ aside' = aside \cup {Len(tokens')}
    BY <1>7 DEF IssueToken
  <2> QED
    BY <2>2, <2>3, TokensKept
<1>8. ASSUME NEW key \in Keys, PutAiKey(key) \/ PutCloudKey(key) PROVE TokensInv'
  <2>1. ai \in [keys : Values, tokens : [Principals -> Nat]]
    BY DEF CredentialsTypeOK
  <2>2. ai'.tokens = ai.tokens
    BY <1>8, <2>1 DEF PutAiKey, PutCloudKey, NewKey
  <2>3. UNCHANGED <<stage, fresh, left, settled>> /\ UNCHANGED <<tokens, aside>>
    BY <1>8 DEF PutAiKey, PutCloudKey, NewKey
  <2> QED
    BY <2>2, <2>3, TokensKept
<1>9. ASSUME NEW c \in Clients, NEW t \in Issued, NEW need \in Need, Ask(c, t, need)
      PROVE  TokensInv'
  <2>1. UNCHANGED <<stage, fresh, left, settled>> /\ UNCHANGED <<tokens, aside>> /\ ai' = ai
    BY <1>9 DEF Ask
  <2> QED
    BY <2>1, TokensKept
<1>10. ASSUME NEW c \in Clients, Done(c) PROVE TokensInv'
  <2>1. UNCHANGED <<stage, fresh, left, settled>> /\ UNCHANGED <<tokens, aside>> /\ ai' = ai
    BY <1>10 DEF Done
  <2> QED
    BY <2>1, TokensKept
<1>11. CASE UNCHANGED credentialVars
  <2>1. UNCHANGED <<stage, fresh, left, settled>> /\ UNCHANGED <<tokens, aside>> /\ ai' = ai
    BY <1>11 DEF credentialVars
  <2> QED
    BY <2>1, TokensKept
<1> QED
  BY <1>1, <1>2, <1>3, <1>4, <1>5, <1>6, <1>7, <1>8, <1>9, <1>10, <1>11
     DEF CredentialsNext, Migrate

\* After a migration the tokens in the file work and are the only ones, whatever
\* was killed before: for any principals and any number of migrations.
THEOREM MigratedTokensAlwaysWork == CredentialsSpec => []MigratedTokensWork
<1>1. CredentialsInit => CredentialsTypeOK /\ TokensInv
  <2>1. CredentialsInit => TokensInv
    BY DEF CredentialsInit, TokensInv, ProgressInv, OnlyInv, MigratedTokensWork
  <2> QED
    BY <2>1, CredentialsTypeInit
<1>2. TokensInv => MigratedTokensWork
  BY DEF TokensInv
<1> QED
  BY <1>1, <1>2, CredentialsTypeStep, TokensStep, PTL DEF CredentialsSpec

\* Access is what the documentation lists, for any tokens and strategies.
THEOREM OnlyDocumentedAccessEver == CredentialsSpec => OnlyDocumentedAccess
<1> DEFINE LetThrough ==
      \A c \in Clients : request[c] = NoRequest /\ request'[c] # NoRequest =>
        /\ Valid(request'[c].token)
        /\ request'[c].need.scope \in Documented(tokens[request'[c].token].scope)
        /\ request'[c].need.strategy = tokens[request'[c].token].strategy
<1>1. ASSUME CredentialsTypeOK, [CredentialsNext]_credentialVars,
             NEW c \in Clients, request[c] = NoRequest, request'[c] # NoRequest
      PROVE  /\ Valid(request'[c].token)
             /\ request'[c].need.scope \in Documented(tokens[request'[c].token].scope)
             /\ request'[c].need.strategy = tokens[request'[c].token].strategy
  <2>1. PICK d \in Clients, t \in Issued, need \in Need : Ask(d, t, need)
    <3>1. ~Begin /\ ~ReplaceCloud /\ ~ReplaceAi /\ ~Crash
      BY <1>1 DEF Begin, ReplaceCloud, ReplaceAi, Crash
    <3>2. \A p \in Principals : ~Issue(p) /\ ~Revoke(p)
      BY <1>1 DEF Issue, Revoke
    <3>3. \A p \in Principals, need \in Need : ~IssueToken(p, need)
      BY <1>1 DEF IssueToken
    <3>4. \A key \in Keys : ~PutAiKey(key) /\ ~PutCloudKey(key)
      BY <1>1 DEF PutAiKey, PutCloudKey, NewKey
    <3>5. \A d \in Clients : ~Done(d)
      BY <1>1 DEF Done, CredentialsTypeOK
    <3>6. ~UNCHANGED credentialVars
      BY <1>1 DEF credentialVars
    <3> QED
      BY <1>1, <3>1, <3>2, <3>3, <3>4, <3>5, <3>6 DEF CredentialsNext, Migrate
  <2>2. d = c /\ request'[c] = [token |-> t, need |-> need]
    BY <1>1, <2>1 DEF Ask, CredentialsTypeOK
  <2>3. Authorizes(t, need)
    BY <2>1 DEF Ask
  <2>4. need.scope \in Documented(tokens[t].scope)
    BY <2>3 DEF Authorizes, Documented
  <2>5. need.strategy = tokens[t].strategy
    <3>1. tokens[t].scope = "signals:read" <=> tokens[t].strategy # NoStrategy
      BY <1>1 DEF CredentialsTypeOK
    <3>2. need.scope # "signals:read" => need.strategy = NoStrategy
      BY DEF Need
    <3> QED
      BY <2>3, <3>1, <3>2 DEF Authorizes
  <2> QED
    BY <2>2, <2>3, <2>4, <2>5 DEF Authorizes
<1>2. CredentialsTypeOK /\ [CredentialsNext]_credentialVars => LetThrough
  BY <1>1
<1> QED
  BY <1>2, CredentialsAlwaysTyped, PTL DEF CredentialsSpec, OnlyDocumentedAccess
=============================================================================
