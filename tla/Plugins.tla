------------------------------ MODULE Plugins ------------------------------
(***************************************************************************)
(* PluginRegistry (core/plugins/registry.py) with the plugins that come    *)
(* with the program (core/plugins/builtin.py) and the plugins of others,   *)
(* for the hook publish.before: dispatch lists the plugins once, in the    *)
(* order of their priority, and runs one after the other on a copy of the  *)
(* payload; the patch of each one that succeeds is applied before the      *)
(* next.  Plugins come and go while a dispatch runs.                       *)
(*                                                                         *)
(* A description that is text is a record: the characters it has beyond    *)
(* YouTube's limit (over, 2 for more than one), whether a blank lies       *)
(* shortly before the limit (spaced), and its hashtags before (head) and   *)
(* behind the limit (tail).                                                *)
(***************************************************************************)
EXTENDS Integers, SequencesExt

CONSTANTS
    Custom,          \* plugins of others
    Priorities,      \* the priorities their manifests may have
    Texts,           \* descriptions that are text
    TagLists,        \* lists of tags
    Nothing,         \* a description that is no text, tags that are no list
    MaxTags          \* _MAX_TAGS

VARIABLES
    registered,      \* the registry: the priority of every plugin in it
    payload,         \* the listing: its description and its tags
    original,        \* the listing that was dispatched
    queue,           \* plugins the dispatch has still to run
    results          \* the outcomes so far

pluginVars == <<registered, payload, original, queue, results>>

Builtins == {"hashtag-extract", "description-guard"}
Names == Builtins \cup Custom

(* "ok": the handler ended in time, without an error.  "touched": what a   *)
(* plugin of others has changed, by its patch or in the list of tags.      *)
Result == [plugin : Names, ok : BOOLEAN, touched : SUBSET {"description", "tags"}]

(* A deviation: the guard goes first. *)
GuardFirst == [name \in Builtins |-> IF name = "description-guard" THEN 10 ELSE 20]

(* The priorities in the manifests. *)
BuiltinPriority == [name \in Builtins |-> IF name = "hashtag-extract" THEN 20 ELSE 30]
PrioritiesOf(name) == IF name \in Builtins THEN {BuiltinPriority[name]} ELSE Priorities

(* all, for_hook: by priority.  The code orders plugins of one priority by *)
(* their names; here they come in any order.                               *)
InOrder ==
    {q \in [1 .. Cardinality(DOMAIN registered) -> DOMAIN registered] :
        /\ IsInjective(q)
        /\ \A i, j \in DOMAIN q : i < j => registered[q[i]] <= registered[q[j]]}

AddTag(tags, tag) == IF tag \in Range(tags) THEN tags ELSE Append(tags, tag)

(* _extract_hashtags: the hashtags that are new are put behind the tags,   *)
(* and all are cut to the limit.  Without a hashtag there is no patch.     *)
WithHashtags(p) ==
    IF p.description = Nothing \/ p.description.head \o p.description.tail = <<>> THEN p
    ELSE LET tags == FoldLeft(AddTag, IF p.tags = Nothing THEN <<>> ELSE p.tags,
                              p.description.head \o p.description.tail)
         IN  [p EXCEPT !.tags = SubSeq(tags, 1, IF Len(tags) > MaxTags THEN MaxTags ELSE Len(tags))]

(* _guard_description: a text that is too long is cut at the last blank or *)
(* at the limit, and the mark of the cut is put behind it.                 *)
Guarded(p) ==
    IF p.description = Nothing \/ p.description.over = 0 THEN p
    ELSE [p EXCEPT !.description = [over |-> IF p.description.spaced THEN 0 ELSE 1,
                                    spaced |-> p.description.spaced,
                                    head |-> p.description.head, tail |-> <<>>]]

Init ==
    /\ registered = BuiltinPriority
    /\ payload \in [description : Texts \cup {Nothing}, tags : TagLists]
    /\ original = payload
    /\ queue = <<>>
    /\ results = <<>>

(* register refuses a name that is taken. *)
RegisterPlugin(name) ==
    /\ name \notin DOMAIN registered
    /\ \E priority \in PrioritiesOf(name) :
          registered' = [n \in DOMAIN registered \cup {name} |->
                            IF n = name THEN priority ELSE registered[n]]
    /\ UNCHANGED <<payload, original, queue, results>>

Unregister(name) ==
    /\ name \in DOMAIN registered
    /\ registered' = [n \in DOMAIN registered \ {name} |-> registered[n]]
    /\ UNCHANGED <<payload, original, queue, results>>

Dispatch ==
    /\ queue = <<>> /\ results = <<>>
    /\ queue' \in InOrder
    /\ UNCHANGED <<registered, payload, original, results>>

(* _invoke: the handler returns in time, or it raises, times out or        *)
(* returns no patch, which is recorded and costs the others nothing.       *)
InvokeBuiltin ==
    /\ queue # <<>> /\ queue[1] \in Builtins
    /\ \E ok \in BOOLEAN :
        /\ results' = Append(results, [plugin |-> queue[1], ok |-> ok, touched |-> {}])
        /\ payload' = IF ~ok THEN payload
                      ELSE IF queue[1] = "hashtag-extract" THEN WithHashtags(payload)
                      ELSE Guarded(payload)
    /\ queue' = Tail(queue)
    /\ UNCHANGED <<registered, original>>

(* A handler of others: its patch may have any values, and whether it      *)
(* succeeds or not it may have changed the list of tags itself, which the  *)
(* copy of the payload shares.                                             *)
InvokeCustom ==
    /\ queue # <<>> /\ queue[1] \in Custom
    /\ \E ok \in BOOLEAN, touched \in SUBSET {"description", "tags"},
          description \in Texts \cup {Nothing}, tags \in TagLists \cup {Nothing} :
        /\ ~ok => touched \subseteq {"tags"}
        /\ ~ok /\ touched # {} => payload.tags # Nothing /\ tags # Nothing
        /\ results' = Append(results, [plugin |-> queue[1], ok |-> ok, touched |-> touched])
        /\ payload' = [description |-> IF "description" \in touched THEN description
                                       ELSE payload.description,
                       tags |-> IF "tags" \in touched THEN tags ELSE payload.tags]
    /\ queue' = Tail(queue)
    /\ UNCHANGED <<registered, original>>

Next ==
    \/ \E name \in Names : RegisterPlugin(name) \/ Unregister(name)
    \/ Dispatch \/ InvokeBuiltin \/ InvokeCustom

-----------------------------------------------------------------------------
Untouched(field, ran) == \A k \in ran : field \notin results[k].touched

(* When the hashtags have been read from a description, and the tags been  *)
(* given by the caller alone, the tags are those given and those of the    *)
(* description as it was dispatched, not of what the guard leaves of it.   *)
ReadsTheWhole ==
    \A i \in DOMAIN results :
        results[i].plugin = "hashtag-extract" /\ results[i].ok
        /\ Untouched("description", 1 .. i) /\ Untouched("tags", DOMAIN results)
            => payload.tags = WithHashtags(original).tags

(* A text that no other plugin has replaced after the guard is over the    *)
(* limit by the mark of the cut at most.                                   *)
KeepsTheLimit ==
    \A i \in DOMAIN results :
        results[i].plugin = "description-guard" /\ results[i].ok
        /\ Untouched("description", i .. Len(results)) /\ payload.description # Nothing
            => payload.description.over <= 1

(* Whoever else is registered, with whatever priority and patches, fails   *)
(* or is removed meanwhile: the two built-in plugins do their work on a    *)
(* listing in the order that the comment at builtin.py:128 asks for.       *)
ListingShaped == ReadsTheWhole /\ KeepsTheLimit
=============================================================================
