--------------------------- MODULE MCWorkflowRun ---------------------------
(* Instances of WorkflowRun for TLC: short scripts, one value. *)
EXTENDS WorkflowRun

CONSTANT v1

\* One value: an error or a null is another result.
MCValues == {v1}

\* A panel of agents before a question, a call after one, an agent, and one in a try block.
MCScripts == {<< "panel", "ask" >>, << "ask", "call" >>, << "agent" >>, << "try" >>}

\* Two agents in a row.
MCAgentScripts == {<< "agent", "agent" >>}

=============================================================================
