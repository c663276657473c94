----------------------------- MODULE MCServices -----------------------------
(***************************************************************************)
(* The instances of the components around the orchestrator, in one run:    *)
(* a behaviour picks one component and runs it, the others stay as they    *)
(* are.  They share no state with each other, so nothing is lost.          *)
(***************************************************************************)
EXTENDS MCStartup, Authorization, EventJournal, Backup, Reproctl, Daemons, Soak, Cvo, ReviewLoop,
  StopHook, Storage, PerfTuner, Crawler, Verifier, PlanDocument, PlanForms, Metrics,
  WriteBoundary, Inspection, Evidence, Reports, Checkpoints, GuidedStart, LevelLoop

\* Paths in order, out of the roots, up and around, through a link out of output.
MCSteps == {<<>>, <<"output", "f">>, <<"output", "..", "notes">>, <<"output", "link">>,
            <<"output", "link", "..", "f">>, <<"output", "src">>, <<"src">>, <<"..", "away">>}
MCAnyPath == {[abs |-> FALSE, parts |-> s] : s \in MCSteps}
               \cup {[abs |-> TRUE, parts |-> p \o s] : p \in {Project, Alias}, s \in MCSteps}
MCName == {"proj", "alias", "away", "output", "link", "f", "notes", "src", ".."}
MCLinkTo == [place : {Project \o <<"output", "link">>, Alias},
             to : {Project, <<"away">>, Project \o <<"src">>}]
\* Roots in order, through the link, and back up from it.
MCRootList == {{}, {<<"output">>}, {<<"output", "link">>}, {<<"output", "link", "..">>}}
\* The presets default, strict, lenient and nora; one that cannot fail often enough, one that
\* may not look.
ReviewOf(iterations, autoStop, threshold) ==
  [iterations |-> iterations, autoStop |-> autoStop, threshold |-> threshold]
Default == ReviewOf(3, TRUE, 2)
MCReviewConfig == {Default, ReviewOf(2, TRUE, 1), ReviewOf(5, FALSE, 3), ReviewOf(4, TRUE, 2),
                   ReviewOf(1, TRUE, 2), ReviewOf(0, TRUE, 2)}
MCValue == {-101, 0, 50, 96, 100, 104}
MCLists == [c \in Contract |-> [granted |-> {"*"}, denied |-> {"push"}]]
DocT(id, deps) == [id |-> id, deps |-> deps, tests |-> "some", waived |-> FALSE, accept |-> TRUE]
\* Plans of up to three tasks with up to two dependencies each, on any of them or on nobody.
MCHeading == {[front |-> TRUE, named |-> TRUE, current |-> TRUE, mode |-> "absent", fields |-> TRUE, tasks |-> <<>>]}
MCDocDeps == {<<>>, <<"a">>, <<"b">>, <<"c">>, <<"nobody">>, <<"a", "a">>, <<"a", "b">>, <<"b", "a">>,
              <<"b", "c">>, <<"c", "a">>, <<"c", "nobody">>, <<"nobody", "b">>}
MCDocOpening == {DocT("a", deps) : deps \in MCDocDeps}
MCDocTask == {DocT(id, deps) : id \in {"a", "b", "c"}, deps \in MCDocDeps}
\* The first task of a form may be any, the others are ordinary but for their dependencies.
MCFormOpening == [id : {"a", "b"}, deps : {<<>>, <<"a">>, <<"b">>}, tests : {"missing", "empty", "some"},
                  waived : BOOLEAN, key : {"deps", "depends_on"},
                  policy : {"max_attempts", "max_retries"}, titled : BOOLEAN]
MCFormTask == {t \in MCFormOpening : t.tests = "some" /\ ~t.waived /\ t.policy = "max_attempts" /\ t.titled}

\* Commands, crawlers and starts are known by nothing but what they do.
MCSymmetry == Permutations(Caller)

VARIABLE part    \* the component that runs

Part == {"startup", "auth", "journal", "backup", "reproctl", "daemons", "soak", "cvo",
         "review", "hook", "storage", "tuner", "crawler", "verifier", "boundary",
         "inspection", "evidence", "reports", "checkpoints", "guided", "levels",
         "plan", "forms", "metrics"}

Init ==
  /\ part \in Part
  /\ StartupInit /\ (part # "startup" => plan = "first")
  /\ AuthInit /\ JournalInit /\ BackupInit /\ DaemonInit
  /\ SoakInit /\ HookInit /\ StorageInit
  /\ CvoInit /\ (part # "cvo" => gpuLock = NoLock)
  /\ ReviewInit
  /\ part # "review" =>
       /\ taskOf = [t \in ReviewTask |-> "RUNNING"] /\ config = Default
       /\ demands = {}
  /\ TunerInit
  /\ CrawlerInit /\ (part # "crawler" => \A v \in DOMAIN tagged : tagged[v])
  /\ VerifierInit /\ (part # "verifier" => evidentiary)
  /\ BoundaryInit
  /\ InspectionInit /\ (part # "inspection" => ailment = "healthy" /\ inRow.tests)
  /\ EvidenceInit /\ (part # "evidence" => index.is = "absent")
  /\ GuidedInit /\ LevelInit
  /\ ReportsInit /\ (part # "reports" => about = "metrics")
  /\ CkptInit /\ (part # "checkpoints" => torch = "yes")
  /\ ReproInit /\ (part # "reproctl" => decided = FreshLedger)
  /\ DocInit
  /\ FormInit /\ (part # "forms" => planText.shape = "scalar")
  /\ MetricsInit /\ (part # "metrics" => ignore = {})

Idle(p, v) == IF part = p THEN TRUE ELSE UNCHANGED v

\* Where a property has made its exception nothing is said of what comes, so no step
\* beyond is looked at.  The two kinds of daemons have no file in common: what one does
\* when the other has slipped it does without that, too.
Exempt ==
  CASE part = "daemons" -> \E k \in Kind : slip[k]
    [] part = "soak"    -> soakSlip
    [] part = "crawler" -> overlap \/ (putBack /\ unpaired)
    [] OTHER            -> FALSE

Next ==
  /\ UNCHANGED part /\ ~Exempt
  /\ Idle("startup", vars) /\ Idle("auth", authVars)
  /\ Idle("journal", journalVars) /\ Idle("backup", backupVars)
  /\ Idle("reproctl", reproVars) /\ Idle("daemons", daemonVars) /\ Idle("soak", soakVars)
  /\ Idle("cvo", cvoVars) /\ Idle("review", reviewVars) /\ Idle("hook", hookVars)
  /\ Idle("storage", storageVars) /\ Idle("tuner", tunerVars) /\ Idle("crawler", crawlerVars)
  /\ Idle("verifier", verifierVars) /\ Idle("boundary", boundaryVars) /\ Idle("inspection", inspectionVars)
  /\ Idle("evidence", evidenceVars) /\ Idle("reports", reportVars)
  /\ Idle("checkpoints", ckptVars) /\ Idle("guided", guidedVars) /\ Idle("levels", levelVars)
  /\ Idle("plan", document) /\ Idle("forms", formVars) /\ Idle("metrics", metricVars)
  /\ \/ part = "startup" /\ StartupNext
     \/ part = "auth" /\ AuthNext
     \/ part = "journal" /\ JournalNext
     \/ part = "backup" /\ BackupNext
     \/ part = "reproctl" /\ ReproNext
     \/ part = "daemons" /\ DaemonNext
     \/ part = "soak" /\ SoakNext
     \/ part = "cvo" /\ CvoNext
     \/ part = "review" /\ ReviewNext
     \/ part = "hook" /\ HookNext
     \/ part = "storage" /\ StorageNext
     \/ part = "tuner" /\ TunerNext
     \/ part = "crawler" /\ CrawlerNext
     \/ part = "verifier" /\ VerifierNext
     \/ part = "boundary" /\ BoundaryNext
     \/ part = "inspection" /\ InspectionNext
     \/ part = "evidence" /\ EvidenceNext
     \/ part = "reports" /\ ReportsNext
     \/ part = "checkpoints" /\ CkptNext
     \/ part = "guided" /\ GuidedNext
     \/ part = "levels" /\ LevelNext
     \/ part = "plan" /\ DocNext
     \/ part = "forms" /\ FormNext
     \/ part = "metrics" /\ MetricsNext

ServicesSpec == Init /\ [][Next]_<<part, vars, authVars, journalVars, backupVars, reproVars,
  daemonVars, soakVars, cvoVars, reviewVars, hookVars, storageVars, tunerVars, crawlerVars, verifierVars,
  boundaryVars, inspectionVars, evidenceVars, reportVars,
  ckptVars, guidedVars, levelVars, document, formVars, metricVars>>
=============================================================================
