--------------------------- MODULE StrategyCatalog ---------------------------
(***************************************************************************)
(* The catalog of strategies in the registry (registry.py): versions and   *)
(* which of them is active, the signals evaluators publish (platform.py)   *)
(* and the artifacts recorders enter (artifacts.py).  Every method of the  *)
(* registry is one transaction; between two of them other processes        *)
(* register, activate, evaluate and record, files change and callers die.  *)
(***************************************************************************)
EXTENDS Expressions

CONSTANTS
  Versions,    \* pairs of strategy_id and version
  StrategyOf,  \* version -> its strategy
  Rules,       \* definitions, but for their strategy, version and symbols
  MeaningOf,   \* rule -> kind, tree and parameters, see Expressions
  Offers,      \* sets of rules that get registered in one behaviour
  Events,      \* events that get evaluated
  Vectors,     \* what feature vectors may say
  FactsOf,     \* event -> the values of its feature vector
  AsofOf,      \* event -> its ts_utc
  Recorders,   \* calls of record_file, one at a time each
  ScopeOf,     \* recorder -> the strategy of its workspace
  Identities,  \* stage, trade_date and artifact_id
  Files,       \* files a path may resolve to
  OwnerOf,     \* file -> the strategy whose data or runs directory it is in, or none
  Contents,    \* contents of files
  MaxTime,     \* bound: the last reading of the clock
  None         \* stands for no event and for what a call does not know yet

ASSUME CatalogAssumption ==
  /\ None \notin Events
  /\ Offers \subseteq SUBSET Rules
  /\ \A rule \in Rules : MeaningOf[rule].kind # "python" => IsTree(MeaningOf[rule].tree)
  /\ MaxTime \in Nat

VARIABLES
  offered,    \* the rules that get registered, one of Offers
  rules,      \* table strategy_versions: version -> its definition
  active,     \* the versions with active=1
  job,        \* the event being evaluated, or None
  held,       \* version -> rule, as read by active_strategies, still to be evaluated
  signals,    \* table derived_signals
  artifacts,  \* table strategy_artifacts
  content,    \* file -> what is in it
  now,        \* the clock
  at,         \* recorder -> "idle", "hash" or "record"
  call,       \* recorder -> what its call knows so far
  answered,   \* history: the artifacts that record_file returned
  seen        \* history: recorder -> versions active at some moment of its call

evaluatorVars == <<job, held, signals>>
recorderVars == <<at, call>>
catalogVars == <<offered, rules, active, evaluatorVars, artifacts, content, now,
                 recorderVars, answered, seen>>

StrategyIds == {StrategyOf[v] : v \in Versions}
ActiveOf(s) == {v \in active : StrategyOf[v] = s}

Signal == [version : Versions, event : Events,
           action : {"watch", "enter_long", "exit_long"}]
Artifact == [strategy : StrategyIds, identity : Identities, version : Versions,
             content : Contents, created : 0..MaxTime]
Call == [identity : Identities \cup {None}, file : Files \cup {None},
         version : Versions \cup {None}, content : Contents \cup {None}]
NoCall == [identity |-> None, file |-> None, version |-> None, content |-> None]

CatalogTypeOK ==
  /\ offered \subseteq Rules
  /\ DOMAIN rules \subseteq Versions
  /\ \A v \in DOMAIN rules : rules[v] \in Rules
  /\ active \subseteq DOMAIN rules
  /\ \A v, w \in active : StrategyOf[v] = StrategyOf[w] => v = w
  /\ job \in Events \cup {None}
  /\ DOMAIN held \subseteq Versions
  /\ \A v \in DOMAIN held : held[v] \in Rules
  /\ signals \subseteq Signal
  /\ artifacts \subseteq Artifact
  /\ content \in [Files -> Contents]
  /\ now \in 0..MaxTime
  /\ at \in [Recorders -> {"idle", "hash", "record"}]
  /\ call \in [Recorders -> Call]
  /\ answered \subseteq Artifact
  /\ seen \in [Recorders -> SUBSET Versions]

CatalogInit ==
  /\ offered \in Offers
  /\ rules = <<>>
  /\ active = {}
  /\ job = None /\ held = <<>>
  /\ signals = {} /\ artifacts = {}
  /\ content \in [Files -> Contents]
  /\ now = 0
  /\ at = [r \in Recorders |-> "idle"]
  /\ call = [r \in Recorders |-> NoCall]
  /\ answered = {}
  /\ seen = [r \in Recorders |-> {}]

Tick ==
  /\ now < MaxTime
  /\ now' = now + 1
  /\ UNCHANGED <<offered, rules, active, evaluatorVars, artifacts, content, recorderVars,
                 answered, seen>>

-----------------------------------------------------------------------------
(* register *)

\* Mistake: the versions of a strategy stay active.
ActivatedToo(v) == active \cup {v}

Activated(v) == {w \in active : StrategyOf[w] # StrategyOf[v]} \cup {v}

Enter(v, rule, activate) ==
  /\ rules' = [w \in DOMAIN rules \cup {v} |-> IF w = v THEN rule ELSE rules[w]]
  /\ active' = IF activate THEN Activated(v) ELSE active
  /\ seen' = [r \in Recorders |-> IF at[r] = "idle" THEN {} ELSE seen[r] \cup active']
  /\ UNCHANGED <<offered, evaluatorVars, artifacts, content, now, recorderVars, answered>>

\* Mistake: INSERT OR REPLACE.
RegisterAgain(v, rule, activate) == Enter(v, rule, activate)

\* A version that is there keeps its definition; another one is a ValueError.
Register(v, rule, activate) ==
  /\ v \in DOMAIN rules => rules[v] = rule
  /\ Enter(v, rule, activate)

-----------------------------------------------------------------------------
(* process_sip_event, from the vector on *)

\* active_strategies; a symbol out of a definition's symbols is another event.
ReadStrategies(e) ==
  /\ job = None
  /\ job' = e
  /\ held' = [v \in active |-> rules[v]]
  /\ UNCHANGED <<offered, rules, active, signals, artifacts, content, now, recorderVars,
                 answered, seen>>

\* INSERT OR IGNORE: signal_id is made of version, symbol, asof_utc and action.
\* The feature_provenance of the row that stays is that of its event.
Published(signal) ==
  IF \E old \in signals : /\ old.version = signal.version /\ old.action = signal.action
                          /\ AsofOf[old.event] = AsofOf[signal.event]
  THEN signals ELSE signals \cup {signal}

\* _evaluate and publish_signal, the strategies in any order.
Evaluation(v) ==
  /\ v \in DOMAIN held
  /\ held' = [w \in DOMAIN held \ {v} |-> held[w]]
  /\ \E action \in Decisions(MeaningOf[held[v]], FactsOf[job]) :
       signals' = IF action = NoDecision THEN signals
                  ELSE Published([version |-> v, event |-> job, action |-> action])
  /\ UNCHANGED <<offered, rules, active, job, artifacts, content, now, recorderVars, answered,
                 seen>>

\* All are evaluated, or an exception or a kill ends it.
EndEvaluation ==
  /\ job # None
  /\ job' = None /\ held' = <<>>
  /\ UNCHANGED <<offered, rules, active, signals, artifacts, content, now, recorderVars,
                 answered, seen>>

-----------------------------------------------------------------------------
(* record_file *)

GoTo(r, stage) == at' = [at EXCEPT ![r] = stage]

Finish(r) ==
  /\ GoTo(r, "idle")
  /\ call' = [call EXCEPT ![r] = NoCall]
  /\ seen' = [seen EXCEPT ![r] = {}]

Opened(r, i, f, v) ==
  /\ at[r] = "idle"
  /\ OwnerOf[f] = ScopeOf[r]
  /\ call' = [call EXCEPT ![r] = [NoCall EXCEPT !.identity = i, !.file = f, !.version = v]]
  /\ GoTo(r, "hash")
  /\ seen' = [seen EXCEPT ![r] = active]
  /\ UNCHANGED <<offered, rules, active, evaluatorVars, artifacts, content, now, answered>>

\* Mistake: any version of the strategy will do.
BeginWithAny(r, i, f) ==
  \E v \in DOMAIN rules : StrategyOf[v] = ScopeOf[r] /\ Opened(r, i, f, v)

\* get_active and the check of the resolved path.  No active version is a
\* ValueError, a file outside the workspace a PermissionError.
Begin(r, i, f) == \E v \in ActiveOf(ScopeOf[r]) : Opened(r, i, f, v)

\* _sha256_file
Hash(r) ==
  /\ at[r] = "hash"
  /\ call' = [call EXCEPT ![r].content = content[call[r].file]]
  /\ GoTo(r, "record")
  /\ UNCHANGED <<offered, rules, active, evaluatorVars, artifacts, content, now, answered, seen>>

\* created_at_utc is read last.
ArtifactOf(r) ==
  [strategy |-> ScopeOf[r], identity |-> call[r].identity, version |-> call[r].version,
   content |-> call[r].content, created |-> now]

Namesakes(row) ==
  {old \in artifacts : old.strategy = row.strategy /\ old.identity = row.identity}

\* Mistake: INSERT OR IGNORE, without a look at what is there.
RecordUnseen(r) ==
  /\ at[r] = "record"
  /\ LET row == ArtifactOf(r)
     IN  /\ artifacts' = IF Namesakes(row) = {} THEN artifacts \cup {row} ELSE artifacts
         /\ answered' \in {answered, answered \cup {row}}
  /\ Finish(r)
  /\ UNCHANGED <<offered, rules, active, evaluatorVars, content, now>>

\* record_artifact.  A caller that dies after the commit gets no answer.
Record(r) ==
  /\ at[r] = "record"
  /\ LET row == ArtifactOf(r)
     IN  IF Namesakes(row) \subseteq {row}
         THEN /\ artifacts' = artifacts \cup {row}
              /\ answered' \in {answered, answered \cup {row}}
         ELSE UNCHANGED <<artifacts, answered>>
  /\ Finish(r)
  /\ UNCHANGED <<offered, rules, active, evaluatorVars, content, now>>

\* The caller dies, or the file is gone when it is opened.
GiveUp(r) ==
  /\ at[r] # "idle"
  /\ Finish(r)
  /\ UNCHANGED <<offered, rules, active, evaluatorVars, artifacts, content, now, answered>>

\* A strategy replaces a file.
WriteFile(f, c) ==
  /\ content' = [content EXCEPT ![f] = c]
  /\ UNCHANGED <<offered, rules, active, evaluatorVars, artifacts, now, recorderVars, answered,
                 seen>>

-----------------------------------------------------------------------------
CatalogNext ==
  \/ Tick
  \/ \E v \in Versions :
       \/ \E rule \in offered, activate \in BOOLEAN : Register(v, rule, activate)
       \/ Evaluation(v)
  \/ \E e \in Events : ReadStrategies(e)
  \/ EndEvaluation
  \/ \E r \in Recorders :
       \/ \E i \in Identities, f \in Files : Begin(r, i, f)
       \/ Hash(r) \/ Record(r) \/ GiveUp(r)
  \/ \E f \in Files, c \in Contents : WriteFile(f, c)

CatalogSpec == CatalogInit /\ [][CatalogNext]_catalogVars

-----------------------------------------------------------------------------
\* docs/PLATFORM_API_TARGET.md:170: a version cannot be modified once created.
\* What that is for: a signal can be recomputed from its row, that is from the
\* version and the features it names, however many other versions were registered
\* and activated while it was decided.  (registry.py:111-115, platform.py:46-57)
SignalsReproducible ==
  \A g \in signals :
    /\ g.version \in DOMAIN rules
    /\ LET rule == MeaningOf[rules[g.version]]
       IN  rule.kind # "python" => Decide(rule, FactsOf[g.event]) = g.action

\* A definition that gets registered makes no decision, though a fact is missing,
\* which depends on that fact: whatever short circuits and chained comparisons left
\* unread, the complete vector gives the same decision.  Excepted are definitions a
\* parameter of which has the name of a fact: they decide while the fact is missing,
\* and no more once it is there.  (expressions.py:91-128, platform.py:48-50)
DecisionIsStable ==
  [][\A v \in DOMAIN rules' \ DOMAIN rules :
       LET rule == MeaningOf[rules'[v]]
       IN  rule.kind # "python" =>
             \A facts \in Vectors : \A known \in SUBSET DOMAIN facts :
               \/ Decide(rule, [x \in known |-> facts[x]])
                    \in {NoDecision, Decide(rule, facts)}
               \/ DOMAIN facts \cap DOMAIN rule.parameters # {}]_catalogVars

\* An artifact belongs to its call: it is of a file of its strategy and names a
\* version of it that was active while record_file ran, though another one may be
\* active when the row is written.  (artifacts.py:35-53)
ArtifactOfItsCall ==
  [][\A row \in artifacts' \ artifacts : \E r \in Recorders :
       /\ at[r] = "record"
       /\ row.version \in seen[r]
       /\ row.strategy = OwnerOf[call[r].file]]_catalogVars

\* What record_file returned is what the table holds under that identity, for
\* good: of calls that race for one identity, or repeat one whose answer was
\* lost, none is told that an artifact was recorded which is not the one stored.
\* (registry.py:259-292)
AnswersAreStored ==
  /\ answered \subseteq artifacts
  /\ \A row, other \in artifacts :
       row.strategy = other.strategy /\ row.identity = other.identity => row = other
=============================================================================
