-------------------------------- MODULE Gateway -------------------------------
(* Models, their keys, and a call: litellm_service.py and the settings endpoints. *)
(*                                                                           *)
(* A session (a task, or the test of a model) reads the provider keys and then  *)
(* the custom models once, and makes its calls from what it read. A call goes   *)
(* along the model's chain of fallbacks, made before the first attempt, until a *)
(* provider answers. Meanwhile administrators put and delete keys, create and   *)
(* delete custom models and give agents other models; a handler reads, checks   *)
(* and commits later (PostgreSQL, read committed).                              *)
(* Abstracted: prompts, tools, token counts, prices, latencies and messages; a  *)
(* reference "provider/model" is the provider; who may change what (Accounts).   *)
EXTENDS Integers, Sequences, FiniteSets

CONSTANTS
    Providers,
    Known,        \* providers that need a key: those in _PROVIDER_KEY_FIELDS
    EnvKeys,      \* providers whose key is in the environment
    Names,        \* names of custom models
    Aliases,      \* names in models.yaml
    Yaml,         \* Yaml[a]: [provider, fallback] of an alias
    Agents, Sessions,
    Requests,     \* numbers: bound on the changes
    Tried,        \* bound: the [provider, fallback] tried for new custom models
    NoRef

Refs  == Names \cup Aliases \cup Providers
Entry == [provider : Providers, fallback : Refs \cup {NoRef}]

\* Assumed of the constants (Console).
GatewayAssumption ==
    /\ Known \subseteq Providers /\ EnvKeys \subseteq Known
    /\ Names \cap Providers = {} /\ Aliases \cap Providers = {}
    /\ Yaml \in [Aliases -> Entry] /\ Tried \subseteq Entry
    /\ NoRef \notin Refs /\ IsFiniteSet(Refs) /\ Requests \subseteq Nat

VARIABLES
    stored,       \* stored[p]: the row of p's key: "none", "good", "unreadable"
    custom,       \* rows of custom models: a function on the names that have one
    model,        \* model[a]: what agent a refers to; NoRef: there is no such agent
    change,       \* what each handler has read and is about to write
    session,      \* sessions and the call each is making
    raced,        \* history: names referred to anew while a delete was under way
    stranded      \* history: names deleted while something referred to them

gvars == <<stored, custom, model, change, session, raced, stranded>>
-----------------------------------------------------------------------------
Done  == [do |-> "done"]
Asleep == [at |-> "asleep"]

Init ==
    /\ stored = [p \in Providers |-> "none"]
    /\ custom = [n \in {} |-> NoRef]
    /\ model = [a \in Agents |-> NoRef]
    /\ change = [r \in Requests |-> [do |-> "none"]]
    /\ session = [s \in Sessions |-> Asleep]
    /\ raced = {} /\ stranded = {}
-----------------------------------------------------------------------------
(* Changes.                                                                    *)

\* Requests are numbered as they come.
NextOne(r) == change[r].do = "none" /\ \A q \in Requests : q < r => change[q].do # "none"

GoesOn(r, what) == change' = [change EXCEPT ![r] = what]

Answered(r) == change' = [change EXCEPT ![r] = Done]

\* The requests that had read a row which r deletes change nothing any more.
AnsweredAll(r, about(_)) ==
    change' = [q \in Requests |-> IF q = r \/ about(change[q]) THEN Done ELSE change[q]]

BeginPutKey(r, p) ==
    /\ GoesOn(r, [do |-> "put", provider |-> p, had |-> stored[p] # "none"])
    /\ UNCHANGED <<stored, custom, model, session, raced, stranded>>

\* A row that came in between (unique) or has gone makes the commit fail.
PutKey(r) ==
    LET p == change[r].provider IN
    /\ change[r].do = "put"
    /\ stored' = IF change[r].had = (stored[p] # "none") THEN [stored EXCEPT ![p] = "good"] ELSE stored
    /\ Answered(r)
    /\ UNCHANGED <<custom, model, session, raced, stranded>>

BeginDeleteKey(r, p) ==
    /\ stored[p] # "none"
    /\ GoesOn(r, [do |-> "drop", provider |-> p])
    /\ UNCHANGED <<stored, custom, model, session, raced, stranded>>

DeleteKey(r) ==
    LET p == change[r].provider IN
    /\ change[r].do = "drop"
    /\ stored' = [stored EXCEPT ![p] = "none"]
    /\ AnsweredAll(r, LAMBDA q : q.do \in {"drop", "put"} /\ q.provider = p
                                /\ (q.do = "put" => q.had))
    /\ UNCHANGED <<custom, model, session, raced, stranded>>

\* The key that keys are encrypted with is changed.
LoseMasterKey(p) ==
    /\ stored[p] = "good"
    /\ stored' = [stored EXCEPT ![p] = "unreadable"]
    /\ UNCHANGED <<custom, model, change, session, raced, stranded>>

Deleting(n) == \E q \in Requests : change[q].do \in {"check", "delete"} /\ change[q].name = n

Referring(n) == IF n \in Names /\ Deleting(n) THEN raced \cup {n} ELSE raced

BeginCreateModel(r, n, e) ==
    /\ n \notin DOMAIN custom
    /\ GoesOn(r, [do |-> "create", name |-> n, entry |-> e])
    /\ UNCHANGED <<stored, custom, model, session, raced, stranded>>

\* The fallback is not looked up: it may not exist, or be the model itself.
CreateModel(r) ==
    LET n == change[r].name IN
    /\ change[r].do = "create"
    /\ IF n \in DOMAIN custom
       THEN UNCHANGED <<custom, raced>>
       ELSE /\ custom' = [m \in DOMAIN custom \cup {n} |->
                            IF m = n THEN change[r].entry ELSE custom[m]]
            /\ raced' = Referring(change[r].entry.fallback)
    /\ Answered(r)
    /\ UNCHANGED <<stored, model, session, stranded>>

UsedByAgent(n) == \E a \in Agents : model[a] = n
UsedByModel(n) == \E m \in DOMAIN custom : custom[m].fallback = n

BeginDeleteModel(r, n) ==
    /\ n \in DOMAIN custom
    /\ GoesOn(r, [do |-> "check", name |-> n, used |-> UsedByAgent(n)])
    /\ UNCHANGED <<stored, custom, model, session, raced, stranded>>

\* Mutant: only agents are asked.
IgnoresFallbacks(r) == change[r].used

Refused(r) == change[r].used \/ UsedByModel(change[r].name)

CheckDeleteModel(r) ==
    /\ change[r].do = "check"
    /\ IF Refused(r) THEN Answered(r)
                     ELSE change' = [change EXCEPT ![r] = [do |-> "delete", name |-> @.name]]
    /\ UNCHANGED <<stored, custom, model, session, raced, stranded>>

DeleteModel(r) ==
    LET n == change[r].name IN
    /\ change[r].do = "delete"
    /\ custom' = [m \in DOMAIN custom \ {n} |-> custom[m]]
    /\ stranded' = IF UsedByAgent(n) \/ \E m \in DOMAIN custom' : custom[m].fallback = n
                   THEN stranded \cup {n} ELSE stranded
    /\ AnsweredAll(r, LAMBDA q : q.do \in {"check", "delete"} /\ q.name = n)
    /\ UNCHANGED <<stored, model, session, raced>>

\* create_agent and update_agent take any name.
SetAgentModel(r, a, ref) ==
    /\ GoesOn(r, Done)
    /\ model' = [model EXCEPT ![a] = ref]
    /\ raced' = Referring(ref)
    /\ UNCHANGED <<stored, custom, session, stranded>>
-----------------------------------------------------------------------------
(* A session and its call: of an agent, or test_model's of any reference.        *)

Step(s, st) == session' = [session EXCEPT ![s] = st]

\* Keys that cannot be decrypted are passed over.
LoadKeys(s, ref) ==
    /\ session[s].at = "asleep"
    /\ Step(s, [at |-> "keys", ref |-> ref, keys |-> {p \in Providers : stored[p] = "good"}])
    /\ UNCHANGED <<stored, custom, model, change, raced, stranded>>

\* The catalogue: models.yaml comes before a custom model of the same name, and
\* a reference with a slash is its own entry without a fallback.
Catalogue ==
    [ref \in Aliases \cup DOMAIN custom \cup Providers |->
        IF ref \in Aliases THEN Yaml[ref]
        ELSE IF ref \in Providers THEN [provider |-> ref, fallback |-> NoRef]
        ELSE custom[ref]]

\* The references from ref along the fallbacks, for one step more than there
\* are references; NoRef after the end.
Walk(ref, cat) ==
    LET walk[k \in 1..(Cardinality(Refs) + 1)] ==
            IF k = 1 THEN ref
            ELSE IF walk[k - 1] \in DOMAIN cat THEN cat[walk[k - 1]].fallback ELSE NoRef
    IN  walk

\* _fallback_chain: an unknown name anywhere, or a cycle, refuses the whole call.
Chain(ref, cat) ==
    LET walk == Walk(ref, cat)
        ends == {n \in 1..Cardinality(Refs) :
                    walk[n + 1] = NoRef /\ \A k \in 1..n : walk[k] \in DOMAIN cat}
    IN  IF ends = {} THEN <<>> ELSE [k \in 1..(CHOOSE n \in ends : TRUE) |-> walk[k]]

LoadModels(s) ==
    LET chain == Chain(session[s].ref, Catalogue) IN
    /\ session[s].at = "keys"
    /\ Step(s, IF chain = <<>> THEN [at |-> "refused"]
               ELSE [at |-> "calling", ref |-> session[s].ref, keys |-> session[s].keys,
                     chain |-> [i \in DOMAIN chain |-> [ref |-> chain[i],
                                provider |-> Catalogue[chain[i]].provider,
                                fallback |-> Catalogue[chain[i]].fallback]],
                     tried |-> <<>>])
    /\ UNCHANGED <<stored, custom, model, change, raced, stranded>>

Next1(st) == st.chain[Len(st.tried) + 1]

\* The stored key comes first, then the environment's; others go without one.
HasKey(st) ==
    LET p == Next1(st).provider IN p \in st.keys \cup EnvKeys \/ p \notin Known

\* Mutant: a provider without a key ends the call.
AfterNoKey(st, outcome) ==
    IF outcome = "answer" THEN "answered"
    ELSE IF outcome = "nokey" \/ Len(st.tried) + 1 = Len(st.chain) THEN "failed" ELSE "calling"

After(st, outcome) ==
    IF outcome = "answer" THEN "answered"
    ELSE IF Len(st.tried) + 1 = Len(st.chain) THEN "failed" ELSE "calling"

Attempt(s, outcome) ==
    LET st == session[s] IN
    Step(s, [st EXCEPT !.at = After(st, outcome),
                       !.tried = Append(@, [ref |-> Next1(st).ref, outcome |-> outcome])])

\* An error, a timeout, a response without choices; or an answer.
AskProvider(s) ==
    /\ session[s].at = "calling"
    /\ HasKey(session[s])
    /\ \E outcome \in {"answer", "error"} : Attempt(s, outcome)
    /\ UNCHANGED <<stored, custom, model, change, raced, stranded>>

MissKey(s) ==
    /\ session[s].at = "calling"
    /\ ~HasKey(session[s])
    /\ Attempt(s, "nokey")
    /\ UNCHANGED <<stored, custom, model, change, raced, stranded>>
-----------------------------------------------------------------------------
Begin(r) ==
    /\ NextOne(r)
    /\ \/ \E p \in Providers : BeginPutKey(r, p) \/ BeginDeleteKey(r, p)
       \/ \E n \in Names, e \in Tried : BeginCreateModel(r, n, e)
       \/ \E n \in Names : BeginDeleteModel(r, n)
       \/ \E a \in Agents, ref \in Refs : SetAgentModel(r, a, ref)

Commit(r) == PutKey(r) \/ DeleteKey(r) \/ CreateModel(r) \/ CheckDeleteModel(r) \/ DeleteModel(r)

Call(s) ==
    \/ \E a \in Agents : model[a] # NoRef /\ LoadKeys(s, model[a])
    \/ \E ref \in Refs : LoadKeys(s, ref)
    \/ LoadModels(s) \/ AskProvider(s) \/ MissKey(s)

Next ==
    \/ \E r \in Requests : Begin(r) \/ Commit(r)
    \/ \E s \in Sessions : Call(s)
    \/ \E p \in Providers : LoseMasterKey(p)

Spec == Init /\ [][Next]_gvars
-----------------------------------------------------------------------------
(* Properties.                                                                 *)

TypeOK ==
    /\ stored \in [Providers -> {"none", "good", "unreadable"}]
    /\ DOMAIN custom \subseteq Names /\ \A n \in DOMAIN custom : custom[n] \in Entry
    /\ model \in [Agents -> Refs \cup {NoRef}]
    /\ \A r \in Requests : change[r].do \in
            {"none", "put", "drop", "create", "check", "delete", "done"}
    /\ \A s \in Sessions : session[s].at \in
            {"asleep", "keys", "refused", "calling", "answered", "failed"}
    /\ raced \subseteq Names /\ stranded \subseteq Names

\* A call goes along the fallbacks that it found, each reference once, and stops
\* at the first answer; it fails only after the last of them, and a missing key
\* costs one attempt and no more.
CallFollowsChain ==
    \A s \in Sessions : session[s].at \in {"calling", "answered", "failed"} =>
        LET st == session[s]
            n  == Len(st.tried)
        IN
        /\ st.chain[1].ref = st.ref
        /\ \A i \in 1..(Len(st.chain) - 1) : st.chain[i + 1].ref = st.chain[i].fallback
        /\ \A i, j \in DOMAIN st.chain : st.chain[i].ref = st.chain[j].ref => i = j
        /\ st.at # "calling" => n > 0
        /\ \A i \in 1..n : /\ st.tried[i].ref = st.chain[i].ref
                           /\ st.tried[i].outcome = "answer" <=> st.at = "answered" /\ i = n
        /\ st.at = "failed" => st.chain[n].fallback = NoRef

\* A custom model that an agent or another model refers to is deleted only if
\* the reference came between the delete's first check and its commit.
DeletedModelIsUnused == stranded \subseteq raced
=============================================================================
