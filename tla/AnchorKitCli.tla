---------------------------- MODULE AnchorKitCli ----------------------------
(***************************************************************************)
(* The anchorkit command (cli/src/main.rs): one of its three subcommands   *)
(* runs to its end, and main turns the result into the exit status.        *)
(***************************************************************************)
EXTENDS TransactionWatch, Discovery, Playground

VARIABLE command

cliVars == <<command, watchVars, discoveryVars, playgroundVars>>

Command == {"Playground", "Discover", "Watch"}

CliInit ==
  /\ command \in Command
  /\ WatchInit
  /\ DiscoveryInit
  /\ PlaygroundInit

RunPlayground(A) ==
  /\ command = "Playground" /\ A
  /\ UNCHANGED <<command, watchVars, discoveryVars>>

RunDiscover(A) ==
  /\ command = "Discover" /\ A
  /\ UNCHANGED <<command, watchVars, playgroundVars>>

RunWatch(A) ==
  /\ command = "Watch" /\ A
  /\ UNCHANGED <<command, discoveryVars, playgroundVars>>

CliNext ==
  \/ RunPlayground(PlaygroundNext)
  \/ RunDiscover(DiscoveryNext)
  \/ RunWatch(WatchNext)

CliSpec ==
  /\ CliInit /\ [][CliNext]_cliVars
  /\ WF_cliVars(RunPlayground(Call))
  /\ WF_cliVars(RunDiscover(DiscoveryStep))
  /\ WF_cliVars(RunWatch(buildClient \/ sleepEnds))
  /\ WF_cliVars(RunWatch(AnchorProgress))
  /\ SF_cliVars(RunWatch(Answered))

\* The status of the process, -1 while it runs: 1 after an error from
\* RpcClient::new, discover or watch::run, and 0 otherwise.
exit_status ==
  IF session = "refused" \/ discovery = "failed" \/ at \in {"gave_up", "no_client"} THEN 1
  ELSE IF session = "ended" \/ discovery = "printed" \/ at = "ok" THEN 0
  ELSE -1

-----------------------------------------------------------------------------

CliTypeOK ==
  /\ command \in Command
  /\ WatchTypeOK /\ DiscoveryTypeOK /\ PlaygroundTypeOK

\* A script can go by the exit status: 0 from watch means that the transaction
\* reached its final status and that it was printed, 0 from discover that the
\* report was, and 1 that it was not; the lines of a playground session that
\* failed leave the status 0 (main.rs:81-122).
StatusTellsOutcome ==
  /\ command = "Watch" /\ exit_status = 0 => printed = FinalWatched
  /\ command = "Watch" /\ exit_status = 1 =>
       \A i \in DOMAIN recent : recent[i] = "error"
  /\ command = "Discover" => (exit_status = 0 <=> "SEP-1" \in discoveryReport.supported)
  /\ command = "Playground" /\ exit_status = 1 => lines = 0

\* What the command shows its user, whichever subcommand it runs.
CliOutcome ==
  /\ WatchOutcome /\ ReportSound /\ AnswersBelongToLines /\ StatusTellsOutcome

\* watch and discover exit, by success, by giving up or by a timeout, and every
\* line of a playground session is answered.
CliAnswers ==
  /\ command # "Playground" => <>(exit_status # -1)
  /\ LinesAnswered
=============================================================================
