----------------------------- MODULE TurnContext -----------------------------
(***************************************************************************)
(* What the model is sent.  The rows of a session from its latest          *)
(* compaction on are projected to messages; a turn adds skill blocks, a    *)
(* compaction of what came before, its user row and the rows of its        *)
(* iterations.  The order in which these are written and read decides what *)
(* the model sees, over turns that fail at any point.                      *)
(*                                                                         *)
(* A row is named by its position.  A message is a row as it is projected, *)
(* the attachment of a row, or the notice of the iteration limit; the      *)
(* developer and environment messages every request starts with are left   *)
(* out.  An iteration makes one tool call at most.                         *)
(***************************************************************************)
EXTENDS Naturals, Sequences, FiniteSets, SequencesExt

CONSTANTS
    Names,          \* skill names a request may select
    SkillOf,        \* the skill a name resolves to, None if it resolves to none
    None,
    Versions,       \* contents of a SKILL.md
    MaxIterations,  \* runtime.maxModelIterations
    MaxTurns,       \* bound: turns of the session
    MaxExtras       \* bound: what is not an answer or a successful call

Skills == {SkillOf[n] : n \in Names} \ {None}

NamesAssumption == SkillOf \in [Names -> Skills \cup {None}]
LimitsAssumption ==
    /\ {MaxTurns, MaxExtras} \subseteq Nat
    /\ MaxIterations \in Nat \ {0}

VARIABLES
    rows,      \* the sessiondata rows
    inline,    \* rows in inlineAttachmentDataIds of the runtime data
    pc,        \* where the turn is
    turn,      \* number of the turn, the last one if none runs
    iter,      \* activeIteration
    wanted,    \* selected names not loaded yet
    stopped,   \* a hook of the received request stopped the turn
    pre,       \* rows when the turn started
    messages,  \* state.messages, and the request while the model answers
    sent,      \* rows whose attachment was inlined in a request, in order
    prefix,    \* stable prefix of the last request, and its turn
    file,      \* what each SKILL.md holds
    extras     \* how much of that there was

vars == <<rows, inline, pc, turn, iter, wanted, stopped, pre, messages, sent, prefix, file, extras>>
skills == <<wanted, stopped, pre>>
request == <<inline, sent, prefix>>

(* flag: an image, a failed parse of the call's arguments, an incomplete    *)
(* plan, a whole skill block; ref: the row that is answered or repeated.    *)
Row(kind, flag, ref) ==
    [kind |-> kind, turn |-> turn, iter |-> iter, flag |-> flag, ref |-> ref,
     block |-> None, covers |-> {}]

Text(i) == [row |-> i, as |-> "text"]
Image(i) == [row |-> i, as |-> "image"]
LimitNotice == [row |-> 0, as |-> "limit"]

Extra(n) == extras + n <= MaxExtras /\ extras' = extras + n

(* A new session, or one with a turn behind it.                             *)
Init ==
    /\ turn = 0 /\ iter = 0
    /\ rows \in {<<>>, <<Row("user", FALSE, 0), Row("answer", FALSE, 0)>>}
    /\ inline = {} /\ pc = "idle"
    /\ wanted = {} /\ stopped = FALSE /\ pre = 0
    /\ messages = <<>> /\ sent = <<>> /\ prefix = [turn |-> 0, messages |-> <<>>]
    /\ file \in [Skills -> Versions]
    /\ extras = 0

-----------------------------------------------------------------------------
(* From rows to messages                                                    *)

(* The last row of the kinds that is in the set, 0 if none is.              *)
Latest(h, S, kinds) ==
    LET T == {i \in S : h[i].kind \in kinds}
    IN  IF T = {} THEN 0 ELSE CHOOSE i \in T : \A j \in T : j <= i

LastCompact(h) == Latest(h, DOMAIN h, {"compact"})

Context(h) == LET from == LastCompact(h) IN {i \in DOMAIN h : i >= from}

(* Seeded bug: what a tool has generated counts as the user's.              *)
LatestUserOrTool(h, C) == Latest(h, C, {"user", "generated"})

LatestUser(h, C) == Latest(h, C, {"user"})

DeltaHidden(h, C, i) ==
    h[i].kind = "delta" /\ \E j \in C : h[j].kind = "call" /\ h[j].iter = h[i].iter

ReminderStale(h, user, i) == h[i].kind = "reminder" /\ i < user

(* A result says that its call's arguments were no JSON, in an earlier turn.*)
BadPair(h, user, i) == h[i].kind = "result" /\ h[i].flag /\ i < user

(* Seeded bug: only the result goes.                                        *)
ResultSuppressed(h, C, user, i) == BadPair(h, user, i)

PairSuppressed(h, C, user, i) ==
    \/ BadPair(h, user, i)
    \/ h[i].kind = "call" /\ \E j \in C : BadPair(h, user, j) /\ h[j].ref = i

PlanHidden(h, i) == h[i].kind = "cot"

ControlErrorHidden(h, i) == h[i].kind = "control"

Shown(h, C, user, i) ==
    /\ i \in C
    /\ ~PlanHidden(h, i)
    /\ ~ControlErrorHidden(h, i)
    /\ ~DeltaHidden(h, C, i)
    /\ ~ReminderStale(h, user, i)
    /\ ~PairSuppressed(h, C, user, i)

Those(h, Test(_)) == SelectSeq([i \in DOMAIN h |-> i], Test)

History(h) ==
    LET C == Context(h)
        user == LatestUser(h, C)
        shown == Those(h, LAMBDA i : Shown(h, C, user, i))
    IN  [k \in DOMAIN shown |-> Text(shown[k])]

Attachments(h) ==
    LET C == Context(h)
        attached == Those(h, LAMBDA i : i \in inline /\ i \in C)
    IN  [k \in DOMAIN attached |-> Image(attached[k])]

Messages(h) == History(h) \o Attachments(h)

StablePrefix(ms) ==
    LET at == {k \in DOMAIN ms : ms[k].as = "image"}
    IN  IF at = {} THEN ms ELSE SubSeq(ms, 1, (CHOOSE k \in at : \A j \in at : k <= j) - 1)

AddInline(S) == inline' = inline \cup S
ConsumeInline == inline' = {}

-----------------------------------------------------------------------------
(* The request is received                                                  *)

StartTurn ==
    /\ pc = "idle" /\ turn < MaxTurns
    /\ pc' = "received" /\ turn' = turn + 1 /\ iter' = 1
    /\ wanted' \in SUBSET Names /\ Extra(IF wanted' = {} THEN 0 ELSE 1)
    /\ stopped' = FALSE
    /\ pre' = Len(rows)
    /\ messages' = Messages(rows)
    /\ UNCHANGED <<rows, file, request>>

(* Seeded bug: a block of that skill will do.                               *)
LoadedByName(block) ==
    \E k \in DOMAIN messages :
        LET i == messages[k].row
        IN  messages[k].as = "text" /\ rows[i].kind = "skill" /\ rows[i].flag
            /\ rows[i].block[1] = block[1]

Loaded(block) ==
    \E k \in DOMAIN messages :
        LET i == messages[k].row
        IN  messages[k].as = "text" /\ rows[i].kind = "skill" /\ rows[i].flag
            /\ rows[i].block = block

Preloaded(s) == \E i \in DOMAIN rows : i > pre /\ rows[i].kind = "skill" /\ rows[i].block[1] = s

(* The skill of that name, or of the nearest one.                           *)
Resolved(n) == SkillOf[n]

LoadSkill(n) ==
    /\ pc = "received" /\ n \in wanted
    /\ LET s == Resolved(n) IN
        \/ /\ s = None
           /\ wanted' = {} /\ stopped' = TRUE
           /\ UNCHANGED rows
        \/ /\ s # None
           /\ wanted' = wanted \ {n}
           /\ UNCHANGED stopped
           /\ rows' = IF Preloaded(s) THEN rows
                      ELSE LET block == <<s, file[s]>> IN
                           Append(rows, [Row("skill", ~Loaded(block), 0) EXCEPT !.block = block])
    /\ UNCHANGED <<pc, turn, iter, pre, messages, file, extras, request>>

(* Seeded bug: the summary starts afresh.                                   *)
SummaryOfRows(h) == {i \in Context(h) : i <= pre} \ {LastCompact(h)}

Summary(h) ==
    {i \in Context(h) : i <= pre}
    \cup (IF LastCompact(h) = 0 THEN {} ELSE h[LastCompact(h)].covers)

(* The context limit, on the rows and the messages before the turn.         *)
ContextLimit ==
    /\ pc = "received" /\ wanted = {}
    /\ pc' = "input"
    /\ \/ UNCHANGED <<rows, extras>>
       \/ /\ ~stopped /\ \E i \in Context(rows) : i <= pre
          /\ Extra(1)
          /\ rows' = Append(rows, [Row("compact", FALSE, 0) EXCEPT !.covers = Summary(rows)])
    /\ UNCHANGED <<turn, iter, messages, file, request, skills>>

AppendInput ==
    /\ pc = "input"
    /\ \E image \in BOOLEAN :
        /\ Extra(IF image THEN 1 ELSE 0)
        /\ rows' = Append(rows, Row("user", image, 0))
                   \o (IF stopped THEN <<Row("answer", FALSE, 0)>> ELSE <<>>)
        /\ AddInline(IF image THEN {Len(rows) + 1} ELSE {})
    /\ pc' = IF stopped THEN "idle" ELSE "context"
    /\ UNCHANGED <<turn, iter, messages, file, sent, prefix, skills>>

(* An error before there is a user row ends the turn; the rows stay.        *)
Refused ==
    /\ pc \in {"received", "input"} /\ Extra(1)
    /\ pc' = "idle"
    /\ UNCHANGED <<rows, turn, iter, messages, file, request, skills>>

-----------------------------------------------------------------------------
(* An iteration                                                             *)

TurnRows == {i \in Context(rows) : rows[i].turn = turn /\ i > pre}

Plan == Latest(rows, TurnRows, {"cot"})

ReminderDue ==
    /\ iter > 1 /\ Plan # 0 /\ rows[Plan].flag
    /\ ~\E i \in TurnRows : rows[i].kind = "reminder" /\ rows[i].ref = Plan /\ rows[i].iter = iter

PrepareIteration ==
    /\ pc = "context"
    /\ rows' = IF ReminderDue THEN Append(rows, Row("reminder", FALSE, Plan)) ELSE rows
    /\ messages' = Messages(rows) \o (IF ReminderDue THEN <<Text(Len(rows) + 1)>> ELSE <<>>)
    /\ pc' = "request"
    /\ UNCHANGED <<turn, iter, file, extras, request, skills>>

Attached(ms) == SelectSeq(ms, LAMBDA m : m.as = "image")

(* Seeded bug: the list of rows to inline is read and left.                 *)
CallModelListing ==
    /\ pc = "request"
    /\ sent' = sent \o [k \in DOMAIN Attached(messages) |-> Attached(messages)[k].row]
    /\ messages' = messages \o (IF iter > MaxIterations THEN <<LimitNotice>> ELSE <<>>)
    /\ prefix' = [turn |-> turn, messages |-> StablePrefix(messages')]
    /\ pc' = "asked"
    /\ UNCHANGED <<rows, inline, turn, iter, file, extras, skills>>

(* The hook takes all rows to inline before it reads the files.             *)
CallModel ==
    /\ pc = "request"
    /\ ConsumeInline
    /\ sent' = sent \o [k \in DOMAIN Attached(messages) |-> Attached(messages)[k].row]
    /\ messages' = messages \o (IF iter > MaxIterations THEN <<LimitNotice>> ELSE <<>>)
    /\ prefix' = [turn |-> turn, messages |-> StablePrefix(messages')]
    /\ pc' = "asked"
    /\ UNCHANGED <<rows, turn, iter, file, extras, skills>>

(* An image cannot be read any more.                                        *)
ImagesFail ==
    /\ pc = "request" /\ Attached(messages) # <<>>
    /\ ConsumeInline
    /\ rows' = Append(rows, Row("error", FALSE, 0))
    /\ pc' = "idle"
    /\ UNCHANGED <<turn, iter, messages, sent, prefix, file, extras, skills>>

Finish ==
    /\ pc = "asked"
    /\ rows' = Append(rows, Row("answer", FALSE, 0))
    /\ pc' = "idle"
    /\ UNCHANGED <<turn, iter, messages, file, extras, request, skills>>

(* Text beside the calls is a row of its own; a hook may take the calls out.*)
RecordText ==
    /\ pc = "asked" /\ iter <= MaxIterations
    /\ \/ UNCHANGED <<rows, extras>>
       \/ Extra(1) /\ rows' = Append(rows, Row("delta", FALSE, 0))
    /\ pc' = "record"
    /\ UNCHANGED <<turn, iter, messages, file, request, skills>>

RecordCall ==
    /\ pc = "record"
    /\ \/ pc' = "tools" /\ rows' = Append(rows, Row("call", FALSE, 0)) /\ UNCHANGED extras
       \/ Extra(1) /\ pc' = "none" /\ UNCHANGED rows
    /\ UNCHANGED <<turn, iter, messages, file, request, skills>>

(* The call has ended: cot_work, the result, and what the tool generated.   *)
CollectResults ==
    /\ pc \in {"tools", "none"}
    /\ \E plan \in {"none", "open", "done"}, bad \in BOOLEAN, image \in BOOLEAN :
        LET call == Len(rows)
            cot == IF plan = "none" THEN <<>> ELSE <<Row("cot", plan = "open", 0)>>
            generated == IF image THEN <<Row("generated", TRUE, 0)>> ELSE <<>>
            new == cot \o <<Row("result", bad, call)>> \o generated
        IN  IF pc = "none" THEN UNCHANGED <<rows, inline, extras>>
            ELSE /\ bad => plan = "none" /\ ~image
                 /\ Extra((IF plan = "none" THEN 0 ELSE 1) + (IF image THEN 1 ELSE 0)
                          + (IF bad THEN 1 ELSE 0))
                 /\ rows' = rows \o new
                 /\ AddInline(IF image THEN {Len(rows) + Len(new)} ELSE {})
    /\ iter' = iter + 1
    /\ pc' = "context"
    /\ UNCHANGED <<turn, messages, sent, prefix, file, skills>>

(* The hook of the collected results ends the turn: there is no result row. *)
CollectedStop ==
    /\ pc \in {"tools", "none"} /\ Extra(1)
    /\ rows' = Append(rows, Row("answer", FALSE, 0))
    /\ pc' = "idle"
    /\ UNCHANGED <<turn, iter, messages, file, request, skills>>

(* An error, whose message the model sees later, or an interrupt, whose     *)
(* message it never sees.                                                   *)
Fail ==
    /\ pc \in {"context", "asked", "record", "tools"} /\ Extra(1)
    /\ \E kind \in {"error", "control"} : rows' = Append(rows, Row(kind, FALSE, 0))
    /\ pc' = "idle"
    /\ UNCHANGED <<turn, iter, messages, file, request, skills>>

-----------------------------------------------------------------------------
EditSkill(s) ==
    /\ \E v \in Versions \ {file[s]} : file' = [file EXCEPT ![s] = v]
    /\ pc \in {"idle", "received"}
    /\ Extra(1)
    /\ UNCHANGED <<rows, pc, turn, iter, messages, request, skills>>

Next ==
    \/ StartTurn
    \/ \E n \in Names : LoadSkill(n)
    \/ ContextLimit
    \/ AppendInput
    \/ Refused
    \/ PrepareIteration
    \/ ImagesFail
    \/ CallModel
    \/ Finish
    \/ RecordText
    \/ RecordCall
    \/ CollectResults
    \/ CollectedStop
    \/ Fail
    \/ \E s \in Skills : EditSkill(s)

Spec == Init /\ [][Next]_vars

-----------------------------------------------------------------------------
(* Properties                                                               *)

Asked == pc = "asked"
InRequest(i) == \E k \in DOMAIN messages : messages[k] = Text(i)
TurnCompacted == \E i \in DOMAIN rows : rows[i].kind = "compact" /\ rows[i].turn = turn

(* Within a turn every request starts with the stable prefix of the request *)
(* before it, so that the provider can reuse what it has computed: only     *)
(* text beside calls a hook took out may come and go.                       *)
OneStablePrefix ==
    [][prefix'.turn = prefix.turn /\ prefix' # prefix =>
        LET Steady(m) == m.as # "text" \/ rows[m.row].kind # "delta"
        IN  IsPrefix(SelectSeq(prefix.messages, Steady), SelectSeq(prefix'.messages, Steady))]_vars

(* A request has a call and its output together or not at all, and the calls*)
(* of the turn that asks are in it with their outputs.  Only a call of an   *)
(* earlier turn that was cut off is without one.                            *)
CallsPaired ==
    Asked => \A i \in Context(rows) :
        /\ rows[i].kind = "result" => (InRequest(i) <=> InRequest(rows[i].ref))
        /\ rows[i].kind = "call" /\ rows[i].turn = turn =>
            \E j \in DOMAIN rows : rows[j].kind = "result" /\ rows[j].ref = i /\ InRequest(j)

(* Until a compaction, each skill selected for the turn is before the model *)
(* with the contents its file had when it was selected.                     *)
SkillKnown ==
    Asked /\ ~TurnCompacted =>
        \A i \in DOMAIN rows : rows[i].kind = "skill" /\ rows[i].turn = turn =>
            \E j \in DOMAIN rows : rows[j].kind = "skill" /\ rows[j].flag
                                   /\ rows[j].block = rows[i].block /\ InRequest(j)

(* What compactions leave out of the context is in the latest summary, over *)
(* any number of compactions.  Skill rows of a turn that compacts are not.  *)
Accounted ==
    LET compact == LastCompact(rows)
    IN  \A i \in 1..(compact - 1) : rows[i].kind = "skill" \/ i \in rows[compact].covers

(* Each image goes to the model once at most, and an image of the turn that *)
(* asks has gone.                                                           *)
ImagesOnce ==
    /\ IsInjective(sent)
    /\ Asked => \A i \in TurnRows :
                    rows[i].kind \in {"user", "generated"} /\ rows[i].flag => i \in Range(sent)

=============================================================================
