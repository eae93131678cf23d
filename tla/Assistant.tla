----------------------------- MODULE Assistant ------------------------------
(***************************************************************************)
(* The audit assistant (assistant.service.js, AuditAssistantPanel.jsx): a  *)
(* language model is given rows of the trail by one tool, in rounds, and   *)
(* the panel shows its answer with the rows it is based on.                *)
(***************************************************************************)
EXTENDS Trail

CONSTANTS
    Tool,           \* the reader on whose behalf the tool queries
    MaxToolRounds,  \* MAX_TOOL_ROUNDS
    MaxUses         \* bound on the tool uses of one turn of the model

ASSUME AssistantAssumption ==
    /\ Tool \in Reader \ {Walker}
    /\ MaxToolRounds \in Nat \ {0} /\ MaxUses \in Nat \ {0}

VARIABLES
    question,   \* answerQuery: the round, the tool uses still to run, what was collected
    turn        \* the last answer of the API, or an error: its records are what the
                \* panel shows under it, its queries no panel shows

assistantVars == <<trailVars, question, turn>>

\* A use of the tool with a type filter, of an unknown type, or of an unknown tool.
ToolUse == Filter \cup {{"unknown type"}, {"unknown tool"}}

NoQuestion == [step |-> "idle", round |-> 0, uses |-> <<>>, given |-> {}, matched |-> {},
               queries |-> {}]

NoTurn == [kind |-> "none", records |-> {}, given |-> {}, queries |-> {}]

AssistantTypeOK ==
    /\ TrailTypeOK
    /\ question \in [step : {"idle", "thinking", "running"}, round : 0..MaxToolRounds,
                     uses : Seq(ToolUse), given : SUBSET (1..MaxRows),
                     matched : SUBSET (1..MaxRows), queries : SUBSET Filter]
    /\ turn \in [kind : {"none", "answer", "error"}, records : SUBSET (1..MaxRows),
                 given : SUBSET (1..MaxRows), queries : SUBSET Filter]

InitAssistant == question = NoQuestion /\ turn = NoTurn

\* The panel takes one question at a time.
Ask ==
    /\ question.step = "idle"
    /\ question' = [NoQuestion EXCEPT !.step = "thinking", !.round = 1]
    /\ turn' = NoTurn
    /\ UNCHANGED trailVars

\* The answer goes back with everything collected, the queries included.
GiveAnswer ==
    /\ turn' = [kind |-> "answer", records |-> question.matched, given |-> question.given,
                queries |-> question.queries]
    /\ question' = NoQuestion

ModelAnswers ==
    /\ question.step = "thinking" /\ GiveAnswer
    /\ UNCHANGED trailVars

\* Mutant: the rows are collected per round.
CollectedPerRound == {}

Collected == question.matched

\* The model asks for the tool, several times in one turn if it likes.
ModelAsks(uses) ==
    /\ question.step = "thinking"
    /\ question' = [question EXCEPT !.step = "running", !.uses = uses, !.matched = Collected]
    /\ UNCHANGED <<trailVars, turn>>

RunTool ==
    /\ question.step = "running" /\ question.uses # <<>> /\ Idle(Tool)
    /\ Head(question.uses) \in Filter
    /\ read' = [read EXCEPT ![Tool] = Begun(Head(question.uses), 1)]
    /\ UNCHANGED <<recorded, walk, question, turn>>

\* An unknown tool or type is answered with an error, and nothing is read.
RefuseTool ==
    /\ question.step = "running" /\ question.uses # <<>>
    /\ Head(question.uses) \notin Filter
    /\ question' = [question EXCEPT !.uses = Tail(@)]
    /\ UNCHANGED <<trailVars, turn>>

\* The rows found go to the model and are kept as evidence; or the query failed, and
\* the model is told so.
ToolAnswers ==
    /\ question.step = "running" /\ ~Idle(Tool)
    /\ \/ /\ Answered(Tool)
          /\ question' = [question EXCEPT !.uses = Tail(@),
                              !.given = @ \cup Events(Tool), !.matched = @ \cup Events(Tool),
                              !.queries = @ \cup {read[Tool].filter}]
       \/ /\ ~Answered(Tool)
          /\ question' = [question EXCEPT !.uses = Tail(@)]
    /\ read' = [read EXCEPT ![Tool] = NotReading]
    /\ UNCHANGED <<recorded, walk, turn>>

\* All results of a turn go back at once; after the last round what there is is returned.
NextRound ==
    /\ question.step = "running" /\ question.uses = <<>>
    /\ \/ /\ question.round < MaxToolRounds
          /\ question' = [question EXCEPT !.step = "thinking", !.round = @ + 1]
          /\ UNCHANGED turn
       \/ question.round = MaxToolRounds /\ GiveAnswer
    /\ UNCHANGED trailVars

\* The model declines, its provider fails, the limiter refuses or the panel gives up.
AskFails ==
    /\ question.step # "idle"
    /\ question' = NoQuestion
    /\ turn' = [NoTurn EXCEPT !.kind = "error"]
    /\ read' = [read EXCEPT ![Tool] = NotReading]
    /\ UNCHANGED <<recorded, walk>>

AssistantNext ==
    \/ TrailNext /\ UNCHANGED <<question, turn>>
    \/ Ask \/ ModelAnswers \/ RunTool \/ RefuseTool \/ ToolAnswers \/ NextRound \/ AskFails
    \/ \E n \in 1..MaxUses : \E uses \in [1..n -> ToolUse] : ModelAsks(uses)

AssistantSpec == InitTrail /\ InitAssistant /\ [][AssistantNext]_assistantVars

-----------------------------------------------------------------------------
(* An answer is shown with every row the model was given for it in any     *)
(* round, failed queries and unknown types between them or not, and each   *)
(* of these rows matches a query that the API returns with the answer; the *)
(* panel drops the queries.                                                *)
EvidenceIsShown ==
    turn.kind = "answer" =>
        /\ turn.records = turn.given
        /\ \A i \in turn.records : \E q \in turn.queries : q = {} \/ recorded[i].kind \in q
=============================================================================
