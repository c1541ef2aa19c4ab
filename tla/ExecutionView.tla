--------------------------- MODULE ExecutionView ---------------------------
(***************************************************************************)
(* The page of one execution that the HTTP API serves (execution_payload   *)
(* in adapters/api/app.py), read while TriageExecutions goes on.  Its      *)
(* statements run in one unit of work, but no transaction holds them       *)
(* together: another process may commit between any two.                   *)
(*                                                                         *)
(* The alert and the catalog never change and are left out; so are the     *)
(* rows of the result's actions, which ActionView has.                     *)
(***************************************************************************)
EXTENDS TriageExecutions

CONSTANT Shown  \* the execution that is looked at

ASSUME ShownAssumption == Shown \in Runs

VARIABLE page  \* what has been read so far, and by how many statements

viewVars == <<executions, tools, results, audit, pc, key, startedAt, accumulated,
              decision, loaded, category, reply, recovery, clock, faults, page>>

NoPage == [statements |-> 0, execution |-> "ABSENT", result |-> NoResult,
           tools |-> <<>>, audit |-> NoTrail]

\* Mutant: the result is read before its execution.
ReadsResultFirst == <<"result", "execution", "tools", "audit">>

\* The tables, in the order execution_payload reads them.
Reads == <<"execution", "result", "tools", "audit">>

Stored == [execution |-> executions[Shown].state, result |-> results[Shown],
           tools |-> tools[Shown], audit |-> audit[Shown]]

\* The next statement.
Read ==
    /\ page.statements < Len(Reads)
    /\ LET table == Reads[page.statements + 1] IN
       page' = [page EXCEPT !.statements = @ + 1, ![table] = Stored[table]]
    /\ UNCHANGED vars

Complete == page.statements = Len(Reads)

\* The response is sent.
Serve == Complete /\ page' = NoPage /\ UNCHANGED vars

ViewNext ==
    \/ Next /\ UNCHANGED page
    \/ Read \/ Serve

ViewSpec == Init /\ page = NoPage /\ [][ViewNext]_viewVars /\ Fairness

-----------------------------------------------------------------------------
\* What a page shows hangs together, though its parts are of different ages and runs
\* may outlive the recovery threshold: a finished execution comes with the result that
\* explains its state, a result with a successful tool call on the page for each
\* evidence item it cites and with its policy event, and the state with an audit event
\* that announced it.  Nothing rests on the order of the events.
PagesHangTogether ==
    Complete /\ page.execution # "ABSENT" =>
        /\ page.execution \in Finished =>
               /\ page.result # NoResult
               /\ page.execution = TerminalOf(page.result)
        /\ \A i \in page.result.evidence :
               i \in DOMAIN page.tools /\ page.tools[i] = "SUCCESS"
        /\ page.result # NoResult => page.audit["policy_enforced"] > 0
        /\ page.audit["execution_started"] > 0
        /\ page.execution \in Terminal =>
               \E e \in DOMAIN Announces :
                   page.audit[e] > 0 /\ Announces[e] = page.execution
=============================================================================
