-------------------------------- MODULE Plugins -------------------------------
(* Plugins of a workspace, and the requests sent to them: plugins.py, tools.py  *)
(* and webhook.py.                                                             *)
(*                                                                           *)
(* A plugin is registered once, with its manifest, and mounted in the workspace *)
(* with a configuration. A task loads the tools of the enabled plugins before    *)
(* its model is called, and calls them by name; when the task has ended, every  *)
(* enabled plugin with a webhook is told. A request to a plugin is tried at      *)
(* most MaxAttempts times, and no failure of one reaches the task.              *)
(* Abstracted: arguments, schemas, signatures, addresses; who may mount          *)
(* (Accounts); the audit entry behind a change.                                  *)
EXTENDS Naturals, Sequences, FiniteSets

CONSTANTS
    Plugins,
    ToolNames, Builtin,    \* names of tools; those the program has itself
    Manifests,      \* bound: what plugins may come with
    Requests,       \* numbers: bound on the changes
    MaxUses,        \* bound on the tool calls of the task
    MaxAttempts     \* MAX_ATTEMPTS

\* Assumed of the constants (Console).
PluginsAssumption ==
    /\ Manifests \subseteq [Plugins -> [object : BOOLEAN, tools : SUBSET ToolNames]]
    /\ Builtin \subseteq ToolNames
    /\ Requests \subseteq Nat /\ MaxUses \in Nat /\ MaxAttempts \in Nat \ {0}

VARIABLES
    manifest,       \* manifest[p]: is its JSON an object, and the tools it lists
    listed,         \* registered plugins
    mounts,         \* workspace_plugins in the order of their ids
    edit,           \* what each handler has read and is about to write
    job,            \* the task: where it is, and the tools it has loaded
    post,           \* the request under way: to whom, what for, attempts made
    due,            \* plugins still to be told that the task has ended
    log             \* history: the requests made, in order, and how each ended

pvars == <<manifest, listed, mounts, edit, job, post, due, log>>

Configs == {"none", "url"}
NoPost  == [to |-> "nobody"]

Init ==
    /\ manifest \in Manifests
    /\ listed \in {{}, Plugins}            \* all registered before, or none
    /\ mounts = <<>>
    /\ edit = [r \in Requests |-> [do |-> "none"]]
    /\ job = [at |-> "waiting"]
    /\ post = NoPost /\ due = {} /\ log = <<>>
-----------------------------------------------------------------------------
(* Changes.                                                                    *)

NextOne(r) == edit[r].do = "none" /\ \A q \in Requests : q < r => edit[q].do # "none"

Reads(r, what) ==
    /\ NextOne(r) /\ edit' = [edit EXCEPT ![r] = what]
    /\ UNCHANGED <<manifest, listed, mounts, job, post, due, log>>

Saves(r) ==
    /\ edit' = [edit EXCEPT ![r] = [do |-> "done"]]
    /\ UNCHANGED <<manifest, job, post, due, log>>

MountOf(p) == {i \in DOMAIN mounts : mounts[i].plugin = p}

BeginRegister(r, p) == p \notin listed /\ Reads(r, [do |-> "register", plugin |-> p])

\* Any JSON is taken (one that is no object is answered with an error, once it is
\* committed); a name that came in between is refused (unique).
Register(r) ==
    /\ edit[r].do = "register"
    /\ listed' = listed \cup {edit[r].plugin}
    /\ Saves(r) /\ UNCHANGED mounts

\* toggle_workspace_plugin keeps the configuration it is not given;
\* update_workspace_plugin_config mounts what is not mounted, disabled.
BeginChange(r, p, on, config) ==
    /\ p \in listed /\ (on # "same" \/ config # "same")
    /\ Reads(r, [do |-> "change", plugin |-> p, on |-> on, config |-> config,
                 had |-> {mounts[i] : i \in MountOf(p)}])

Given(value, default) == IF value = "same" THEN default ELSE value

\* The ORM writes the columns that differ from what was read.
Written(value, was, now) == IF value \in {"same", was} THEN now ELSE value

Change(r) ==
    LET e == edit[r] IN
    /\ e.do = "change"
    /\ mounts' =
          IF e.had # {}
          THEN [i \in DOMAIN mounts |->
                  IF mounts[i].plugin # e.plugin THEN mounts[i] ELSE
                  LET was == CHOOSE h \in e.had : TRUE IN
                  [mounts[i] EXCEPT !.on = Written(e.on, was.on, @),
                                    !.config = Written(e.config, was.config, @)]]
          ELSE IF MountOf(e.plugin) # {} THEN mounts
          ELSE Append(mounts, [plugin |-> e.plugin, on |-> Given(e.on, "off"),
                               config |-> Given(e.config, "none")])
    /\ Saves(r) /\ UNCHANGED listed
-----------------------------------------------------------------------------
(* The task.                                                                    *)

Enabled == {i \in DOMAIN mounts : mounts[i].on = "on"}

Has(i, n) == n \in manifest[mounts[i].plugin].tools \ Builtin

\* The first enabled plugin that lists a name has it.
Offered ==
    [n \in {x \in ToolNames : \E i \in Enabled : Has(i, x)} |->
        mounts[CHOOSE i \in Enabled :
                   Has(i, n) /\ \A j \in Enabled : j < i => ~Has(j, n)].plugin]

Broken == \E i \in Enabled : ~manifest[mounts[i].plugin].object

\* A manifest that is no object raises, outside of any try: the task fails.
LoadTools ==
    /\ job.at = "waiting"
    /\ job' = IF Broken THEN [at |-> "ended"]
              ELSE [at |-> "model", tools |-> Offered, uses |-> 0]
    /\ UNCHANGED <<manifest, listed, mounts, edit, post, due, log>>

\* Mutant: the tools are loaded again when one is called.
RecordAnew(n) == IF n \in DOMAIN Offered THEN {Offered[n]} ELSE {}
Record(n) == IF n \in DOMAIN job.tools THEN {job.tools[n]} ELSE {}

\* The model may ask for what it was offered, and for what nobody has.
UseTool(n) ==
    /\ job.at = "model" /\ job.uses < MaxUses /\ post = NoPost
    /\ job' = [job EXCEPT !.uses = @ + 1]
    /\ post' = IF n \in Builtin \/ Record(n) = {} THEN NoPost
               ELSE [to |-> CHOOSE p \in Record(n) : TRUE, why |-> n,
                     call |-> job.uses + 1, made |-> 0]
    /\ UNCHANGED <<manifest, listed, mounts, edit, due, log>>

\* The terminal status is committed and broadcast.
End ==
    /\ job.at = "model" /\ post = NoPost
    /\ job' = [at |-> "ended"]
    /\ UNCHANGED <<manifest, listed, mounts, edit, post, due, log>>

HasUrl(i) == mounts[i].config = "url"
Targets == {mounts[i].plugin : i \in {j \in Enabled : HasUrl(j)}}

\* notify_workspace_webhooks reads whom to tell, in no order.
Announce ==
    /\ job.at = "ended"
    /\ job' = [at |-> "telling", targets |-> Targets]
    /\ due' = Targets
    /\ UNCHANGED <<manifest, listed, mounts, edit, post, log>>

\* The announcement counts as a call, after those of the model.
Announcement == MaxUses + 1

TellNext(p) ==
    /\ job.at = "telling" /\ p \in due /\ post = NoPost
    /\ post' = [to |-> p, why |-> "notice", call |-> Announcement, made |-> 0]
    /\ due' = due \ {p}
    /\ UNCHANGED <<manifest, listed, mounts, edit, job, log>>
-----------------------------------------------------------------------------
(* A request: call_webhook.                                                     *)

Entry(how) == [call |-> post.call, to |-> post.to, why |-> post.why, how |-> how]

\* An answer below 500 ends it; a timeout, a broken connection or a 5xx (an error)
\* is tried again, whether or not the plugin had got it.
Attempt(how) ==
    /\ post # NoPost
    /\ log' = Append(log, Entry(how))
    /\ post' = IF how # "error" \/ post.made + 1 = MaxAttempts THEN NoPost
               ELSE [post EXCEPT !.made = @ + 1]
    /\ UNCHANGED <<manifest, listed, mounts, edit, job, due>>
-----------------------------------------------------------------------------
Next ==
    \/ \E r \in Requests :
          \/ NextOne(r) /\ \E p \in Plugins :
                \/ BeginRegister(r, p)
                \/ \E on \in {"on", "off", "same"}, config \in Configs \cup {"same"} :
                      BeginChange(r, p, on, config)
          \/ Register(r) \/ Change(r)
    \/ LoadTools \/ End \/ Announce
    \/ \E p \in Plugins : TellNext(p)
    \/ \E n \in ToolNames : UseTool(n)
    \/ \E how \in {"answer", "error"} : Attempt(how)

Spec == Init /\ [][Next]_pvars
-----------------------------------------------------------------------------
TypeOK ==
    /\ listed \subseteq Plugins
    /\ mounts \in Seq([plugin : listed, on : {"on", "off"}, config : Configs])
    /\ \A p \in Plugins : Cardinality(MountOf(p)) <= 1
    /\ job.at \in {"waiting", "model", "ended", "telling"}
    /\ post # NoPost => post.to \in listed /\ post.made \in 0 .. (MaxAttempts - 1)

\* The entries of the log about one request.
Tries(c, p) == {i \in DOMAIN log : log[i].call = c /\ log[i].to = p}

\* A request is made until it is answered, at most MaxAttempts times.
Persistent(tries) ==
    /\ Cardinality(tries) \in 1 .. MaxAttempts
    /\ \A i, j \in tries : i < j => log[i].how = "error"

Concluded(tries) ==
    Persistent(tries) /\ (Cardinality(tries) = MaxAttempts \/ \E i \in tries : log[i].how # "error")

\* However plugins are mounted, enabled and disabled meanwhile, a call of a tool
\* goes to the plugin whose tool the model was offered (execute_tool), and the
\* end of the task is told to every plugin enabled when it was announced, once,
\* whatever became of the requests before (notify_workspace_webhooks).
RequestsReachTheirPlugin ==
    /\ job.at = "model" =>
          \A i \in DOMAIN log :
              log[i].why \in DOMAIN job.tools /\ log[i].to = job.tools[log[i].why]
    /\ \A i \in DOMAIN log : Persistent(Tries(log[i].call, log[i].to))
    /\ job.at = "telling" /\ due = {} /\ post = NoPost =>
          LET told == {log[i].to : i \in {j \in DOMAIN log : log[j].call = Announcement}}
          IN  /\ told = job.targets
              /\ \A p \in told : Concluded(Tries(Announcement, p))
=============================================================================
