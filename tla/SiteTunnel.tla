----------------------------- MODULE SiteTunnel -----------------------------
(***************************************************************************)
(* The interface of the home machine (core/internal/vpn/site.go).  SiteUp  *)
(* and SiteDown are programs of ip, wg and iptables commands, each a step. *)
(* A command may fail without effect, or fail with its effect when it is   *)
(* killed at its time limit; a query that fails is read as "not there"     *)
(* (site.go:48-50).                                                        *)
(***************************************************************************)
EXTENDS Naturals, Sequences

CONSTANTS
    Profiles,    \* what the core may answer to a registration
    None,
    MaxFaults    \* bound: commands, requests and saves that fail, crashes

ASSUME TunnelAssumption == None \notin Profiles /\ MaxFaults \in Nat

VARIABLES
    link,        \* epsite0: not there, without our alias, with it, configured
    conf,        \* the profile it is configured with
    rules,       \* some of its rules are in iptables
    cmds,        \* what is left of the program that runs
    site,        \* the profile SiteUp was called with
    failed,      \* the program has failed
    faults       \* how many faults there were
tunnelVars == <<link, conf, rules, cmds, site, failed, faults>>

Commands == {"query", "link delete", "unrule", "link add", "alias", "configure", "rule"}

TunnelTypeOK ==
    /\ link \in {"none", "bare", "ours", "up"}
    /\ conf \in Profiles \cup {None}
    /\ rules \in BOOLEAN
    /\ cmds \in Seq(Commands)
    /\ site \in Profiles \cup {None}
    /\ failed \in BOOLEAN
    /\ faults \in 0..MaxFaults

TunnelInit ==
    /\ link = "none"
    /\ conf = None
    /\ rules = FALSE
    /\ cmds = <<>>
    /\ site = None
    /\ failed = FALSE
    /\ faults = 0

SiteDownProgram == <<"query", "link delete", "unrule">>
\* Mutant: what was there before is cleaned up last.
SiteUpThenClean == <<"query", "link delete", "link add", "alias", "configure", "rule", "unrule">>
\* SiteUp begins with all of SiteDown.
SiteUpProgram == <<"query", "link delete", "unrule", "link add", "alias", "configure", "rule">>

\* A caller starts one of them.
Run(program, profile) ==
    /\ cmds' = program
    /\ site' = profile
    /\ failed' = FALSE
SiteDown == Run(SiteDownProgram, None)
SiteUp(profile) == Run(SiteUpProgram, profile)
Finished == cmds = <<>>

\* The program and what it did are over: its process is gone.
Abandoned == cmds' = <<>> /\ site' = None /\ failed' = FALSE

Fault == faults < MaxFaults /\ faults' = faults + 1

-----------------------------------------------------------------------------
SetLink(state, profile) == link' = state /\ conf' = profile /\ UNCHANGED rules
SetRules(there) == rules' = there /\ UNCHANGED <<link, conf>>

Effect(command) ==
    CASE command = "query" -> UNCHANGED <<link, conf, rules>>
      [] command = "link delete" -> SetLink("none", None)
      [] command = "unrule" -> SetRules(FALSE)
      [] command = "link add" -> SetLink("bare", None)
      [] command = "alias" -> SetLink("ours", None)
      [] command = "configure" -> SetLink("up", site)
      [] command = "rule" -> SetRules(TRUE)

\* siteOwned: an interface without our alias belongs to somebody else.
Refused(command) ==
    \/ command = "query" /\ link = "bare"
    \/ command = "link add" /\ link # "none"

\* What SiteUp still does when one of its commands fails: delete an interface
\* that did not get its alias, take down one that has it.  The rest of SiteDown
\* is given up, and so is SiteUp before it has made an interface.
OnError(command) ==
    CASE command = "alias" -> <<"link delete">>
      [] command \in {"configure", "rule"} -> SiteDownProgram
      [] OTHER -> <<>>

\* Nothing to delete when the query found nothing.
Rest == IF Head(cmds) = "query" /\ link = "none" THEN Tail(Tail(cmds)) ELSE Tail(cmds)

RunCommand ==
    /\ cmds # <<>>
    /\ ~Refused(Head(cmds))
    /\ Effect(Head(cmds))
    /\ cmds' = Rest
    /\ UNCHANGED <<site, failed, faults>>

CommandRefused ==
    /\ cmds # <<>>
    /\ Refused(Head(cmds))
    /\ cmds' = <<>>
    /\ failed' = TRUE
    /\ UNCHANGED <<link, conf, rules, site, faults>>

CommandFails ==
    /\ cmds # <<>>
    /\ Head(cmds) # "query"
    /\ Fault
    /\ \/ UNCHANGED <<link, conf, rules>>
       \/ ~Refused(Head(cmds)) /\ Effect(Head(cmds))
    /\ cmds' = OnError(Head(cmds))
    /\ failed' = TRUE
    /\ UNCHANGED site

QueryFails ==
    /\ cmds # <<>>
    /\ Head(cmds) = "query"
    /\ Fault
    /\ cmds' = Tail(Tail(cmds))
    /\ UNCHANGED <<link, conf, rules, site, failed>>

Command == RunCommand \/ CommandRefused \/ CommandFails \/ QueryFails
=============================================================================
