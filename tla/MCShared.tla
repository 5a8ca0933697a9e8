------------------------------- MODULE MCShared -------------------------------
(* What turns, goroutines in the background and requests of the web backend    *)
(* share, for TLC: a session seen from below, the files the store keeps it in, *)
(* and from above, the turns, /clear and the summary that change what it shows *)
(* (they see each call of the store as one step that succeeds), once as the    *)
(* legacy context manager does it and once as Seahorse does; the fallback      *)
(* chain of LLM calls; the sessions with a tool server; the media store; and   *)
(* the gateway process a launcher keeps.  A behaviour runs one of these parts  *)
(* and leaves the others where they start.                                     *)
EXTENDS JSONLStore, SessionHistory, Seahorse, Fallback, MCPManager, MediaStore, Launcher,
        TLC

CONSTANTS t1, t2, k1, k2, c1, c2

VARIABLE part

(* The fallback chain: two calls that overlap, of agents with the candidates   *)
(* in either order; the longest cooldown is as long as the failure window, as  *)
(* in the code.  The tool server: two turns, and it may forget two sessions.   *)
(* The media store: two files, stored by two turns.  The launcher: two         *)
(* requests at a time, a gateway that ran before and two of its own.           *)
Orders == {<<k1, k2>>, <<k2, k1>>}
AfterFailures == <<1, 2>>
AfterNoCredit == <<2>>

(* Seahorse: two leaf summaries, with a crash or a failure; and four, where a *)
(* condenser's candidates need not be neighbours.                             *)
Long == INSTANCE Seahorse WITH
            OldSummaries <- 4, MaxSaid <- 9, MaxSummaries <- 8, MaxMishaps <- 0

ASSUME Assumptions ==
    /\ HistoryAssumption /\ SeahorseAssumption /\ Long!SeahorseAssumption
    /\ FallbackAssumption /\ MCPAssumption /\ MediaAssumption /\ LauncherAssumption

allVars == <<part, vars, histVars, seaVars, chainVars, mcpVars, mediaVars, launchVars>>

SharedInit ==
    /\ part \in {"files", "talk", "short", "long", "chain", "server", "media", "launcher"}
    /\ Init /\ HistoryInit /\ ChainInit /\ MCPInit /\ MediaInit /\ LauncherInit
    /\ IF part = "long" THEN Long!SeahorseInit ELSE SeahorseInit
    /\ part = "launcher" \/ pidfile = 0

FilesStep ==
    /\ part = "files" /\ Next
    /\ UNCHANGED <<part, histVars, seaVars, chainVars, mcpVars, mediaVars, launchVars>>
TalkStep ==
    /\ part = "talk" /\ HistoryNext
    /\ UNCHANGED <<part, vars, seaVars, chainVars, mcpVars, mediaVars, launchVars>>
SeahorseStep ==
    /\ (part = "short" /\ SeahorseNext) \/ (part = "long" /\ Long!SeahorseNext)
    /\ UNCHANGED <<part, vars, histVars, chainVars, mcpVars, mediaVars, launchVars>>
ChainStep ==
    /\ part = "chain" /\ ChainNext
    /\ UNCHANGED <<part, vars, histVars, seaVars, mcpVars, mediaVars, launchVars>>
ServerStep ==
    /\ part = "server" /\ MCPNext
    /\ UNCHANGED <<part, vars, histVars, seaVars, chainVars, mediaVars, launchVars>>
MediaStep ==
    /\ part = "media" /\ MediaNext
    /\ UNCHANGED <<part, vars, histVars, seaVars, chainVars, mcpVars, launchVars>>
LauncherStep ==
    /\ part = "launcher" /\ LauncherNext
    /\ UNCHANGED <<part, vars, histVars, seaVars, chainVars, mcpVars, mediaVars>>

(* Calls, requests and references come to an end.                             *)
Rest == part \in {"chain", "server", "media", "launcher"} /\ UNCHANGED allVars

SharedNext == \/ FilesStep \/ TalkStep \/ SeahorseStep \/ ChainStep \/ ServerStep
              \/ MediaStep \/ LauncherStep \/ Rest

SharedSpec == SharedInit /\ [][SharedNext]_allVars

(* No part tells its calls, its files or its clients apart.                   *)
Symmetry == Permutations({t1, t2}) \cup Permutations({c1, c2})

-----------------------------------------------------------------------------
(* The texts of what follows are in the modules.                              *)

TypesOK ==
    CASE part = "files" -> TypeOK
      [] part = "talk" -> HistoryTypeOK
      [] part = "short" -> ContextTypeOK
      [] part = "long" -> Long!ContextTypeOK
      [] part = "chain" -> ChainTypeOK
      [] part = "server" -> MCPTypeOK
      [] part = "media" -> MediaTypeOK
      [] part = "launcher" -> LauncherTypeOK
=============================================================================
