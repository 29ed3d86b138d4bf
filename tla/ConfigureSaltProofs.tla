------------------------ MODULE ConfigureSaltProofs ------------------------
(***************************************************************************)
(* Proofs about ConfigureSalt: type correctness, that the operator's       *)
(* settings are kept, and what a completed run leaves.                     *)
(***************************************************************************)
EXTENDS ConfigureSalt, TLAPS

Copied(c) == \E t \in Time : backup[t] = c

\* Until the file is written there is a whole backup of it with a date of its
\* own: the one just taken or the one `last` was copied from.
Backups ==
    ~rushed =>
        /\ Holds(conf) \/ \E t \in Time : Holds(backup[t])
        /\ last \in Conf => Copied(last)
        /\ phase = "last" => backup[stamp] = conf
        /\ phase \in {"load", "dump"} /\ conf \in Conf => Copied(conf)

\* What the loop over the projects leaves in project_name.
Selected ==
    IF props.projects \subseteq {props.project} THEN project = props.project
    ELSE project \in props.projects

AfterMain == {"layers", "backup", "last", "load", "dump", "keys", "stop", "enable",
              "start", "init_states"}
AfterProjects == AfterMain \cup {"main.sls"}
AfterAlias == AfterProjects \cup {"states", "projects"}
AfterLayers == AfterMain \ {"layers"}

LayerDone(i) == (phase = "layers" /\ i \notin todo) \/ phase \in AfterLayers

\* The links there are when the script is in some phase.
Linked ==
    /\ phase \in {"clean", "alias", "states"} => project = props.project
    /\ phase = "projects" =>
          /\ todo \subseteq props.projects /\ todo # {}
          /\ todo = props.projects => project = props.project
          /\ \A p \in props.projects \ todo : links[p] = p
    /\ phase \in AfterProjects => Selected /\ \A p \in props.projects : links[p] = p
    /\ phase \in AfterAlias => links["alias"] = props.project
    /\ phase \in AfterProjects \cup {"projects"} => links["states"] = "common"
    /\ phase \in AfterMain => OfProject("main.sls")
    /\ phase = "layers" => todo \subseteq 1 .. 3 /\ todo # {}
    /\ LayerDone(1) => links["commons"] = "common"
    /\ LayerDone(2) => OfProject("defaults")
    /\ LayerDone(3) => links["overrides"] = props.project

Written(c) == c \in Conf /\ c.own /\ c.custom \in since

\* The configuration on disk and the one the Salt master runs with.
Restarted ==
    /\ phase = "dump" => loaded.custom \in since
    /\ phase \in {"keys", "stop", "enable", "start", "init_states"} => Written(conf)
    /\ phase \in {"enable", "start"} => unstopped \/ running = Nothing
    /\ phase = "init_states" => unstopped \/ Written(running)

Finished == phase # "idle" => ~completed

Inv == TypeOK /\ Backups /\ Linked /\ Restarted /\ Finished /\ Configured
-----------------------------------------------------------------------------
(* Every step keeps the invariant, part by part *)

\* Every step keeps the types.
LEMMA TypeStep == ASSUME TypeOK, [Next]_vars PROVE TypeOK'
<1>. USE ConfigureAssumption, MarksAssumption
     DEF TypeOK, Time, Targets, Conf, Empty, Links, Layers, CommonLinks, Phases,
         vars, scriptVars, confVars, saltVars, history, bounds, LinksOnly, ScriptOnly,
         SaltOnly, Ended, Enter, Link
<1>1. CASE StartAny
  <2>1. PICK p \in Properties : Start(p)
    BY <1>1 DEF StartAny
  <2>2. runs' \in 0 .. MaxRuns
    BY <2>1 DEF Start
  <2>3. project' \in Targets
    BY <2>1 DEF Start
  <2>4. completed' \in BOOLEAN
    BY <2>1, Zenon DEF Start
  <2>5. unstopped' \in BOOLEAN
    BY <2>1, Zenon DEF Start
  <2>. QED
    BY <2>1, <2>2, <2>3, <2>4, <2>5 DEF Start
<1>2. CASE RemoveOldLinks
  BY <1>2 DEF RemoveOldLinks
<1>3. CASE LinkAliases
  BY <1>3 DEF LinkAliases
<1>4. CASE LinkStates
  BY <1>4 DEF LinkStates
<1>5. ASSUME NEW p \in Projects, LinkProject(p) PROVE TypeOK'
  BY <1>5 DEF LinkProject
<1>6. CASE LinkMain
  BY <1>6 DEF LinkMain
<1>7. ASSUME NEW i \in 1 .. Len(Layers), LinkLayer(i) PROVE TypeOK'
  <2>1. links' \in [Links -> Targets \cup {Missing}]
    <3>1. i \in {1, 2, 3} /\ Layers[i] \in {"commons", "defaults", "overrides"}
      OBVIOUS
    <3>2. props.project \in Targets /\ "common" \in Targets
      OBVIOUS
    <3>3. LayerTarget(Layers[i]) \in Targets
      BY <3>1, <3>2 DEF LayerTarget
    <3>. QED
      BY <1>7, <3>3 DEF LinkLayer
  <2>2. todo' \subseteq Projects \cup 1 .. Len(Layers) /\ phase' \in Phases
    BY <1>7 DEF LinkLayer
  <2>. QED
    BY <1>7, <2>1, <2>2 DEF LinkLayer
<1>8. CASE BackUp
  <2>1. rushed' \in BOOLEAN
    BY <1>8, Zenon DEF BackUp
  <2>2. backup' \in [Time -> Conf \cup {Torn, Missing}] /\ stamp' \in Time
    BY <1>8 DEF BackUp
  <2>. QED
    BY <1>8, <2>1, <2>2 DEF BackUp
<1>9. CASE CopyLast
  BY <1>9 DEF CopyLast
<1>10. CASE Load
  BY <1>10 DEF Load
<1>11. CASE Dump
  <2>1. [loaded EXCEPT !.own = TRUE] \in Conf
    OBVIOUS
  <2>. QED
    BY <1>11, <2>1 DEF Dump
<1>12. CASE DeleteAllMinionKeys
  <2>1. accepted' \in BOOLEAN
    BY <1>12, Zenon DEF DeleteAllMinionKeys
  <2>. QED
    BY <1>12, <2>1 DEF DeleteAllMinionKeys
<1>13. CASE StopMaster
  <2>1. unstopped' \in BOOLEAN
    BY <1>13, Zenon DEF StopMaster
  <2>2. running' \in Conf \cup {Nothing} /\ failures' \in 0 .. MaxFailures
    BY <1>13 DEF StopMaster
  <2>. QED
    BY <1>13, <2>1, <2>2 DEF StopMaster
<1>14. CASE EnableMaster
  BY <1>14 DEF EnableMaster
<1>15. CASE StartMaster
  BY <1>15 DEF StartMaster
<1>16. CASE RunInitStates
  BY <1>16 DEF RunInitStates
<1>17. CASE Raise
  BY <1>17 DEF Raise
<1>18. CASE Fail
  <2>1. links' \in [Links -> Targets \cup {Missing}]
    <3>1. CASE links' = links
      BY <3>1
    <3>2. CASE \E l \in Unlinked : links' = [links EXCEPT ![l] = Missing]
      BY <3>2
    <3>. QED
      BY <1>18, <3>1, <3>2, Zenon DEF Fail
  <2>2. backup' \in [Time -> Conf \cup {Torn, Missing}]
    BY <1>18 DEF Fail
  <2>3. conf' \in Conf \cup {Torn}
    BY <1>18 DEF Fail, Parts
  <2>4. running' \in Conf \cup {Nothing}
    BY <1>18, <2>3 DEF Fail, AtBoot
  <2>5. rushed' \in BOOLEAN
    BY <1>18, Zenon DEF Fail
  <2>6. last' \in Conf \cup {Torn, Missing} /\ failures' \in 0 .. MaxFailures
    BY <1>18 DEF Fail
  <2>. QED
    BY <1>18, <2>1, <2>2, <2>3, <2>4, <2>5, <2>6 DEF Fail
<1>19. CASE RestoreConf
  BY <1>19 DEF RestoreConf
<1>20. CASE Tick
  BY <1>20 DEF Tick
<1>21. CASE OtherStates
  BY <1>21 DEF OtherStates
<1>22. ASSUME NEW v \in Settings, EditConf(v) PROVE TypeOK'
  BY <1>22 DEF EditConf
<1>23. CASE UNCHANGED vars
  BY <1>23
<1>. QED
  BY <1>1, <1>2, <1>3, <1>4, <1>5, <1>6, <1>7, <1>8, <1>9, <1>10, <1>11, <1>12,
     <1>13, <1>14, <1>15, <1>16, <1>17, <1>18, <1>19, <1>20, <1>21, <1>22, <1>23
  DEF Next, Script, Environment

\* No step loses the last whole copy of what the operator has set.
LEMMA BackupsStep == ASSUME TypeOK, Backups, [Next]_vars PROVE Backups'
<1>. USE MarksAssumption DEF Backups, Holds, Copied, TypeOK, Time, Conf,
         vars, scriptVars, confVars, saltVars, history, bounds, LinksOnly, ScriptOnly,
         SaltOnly, Ended, Enter, Link
<1>1. CASE StartAny
  BY <1>1 DEF StartAny, StartAny, Start
<1>2. CASE RemoveOldLinks
  BY <1>2 DEF RemoveOldLinks
<1>3. CASE LinkAliases
  BY <1>3 DEF LinkAliases
<1>4. CASE LinkStates
  BY <1>4 DEF LinkStates
<1>5. ASSUME NEW p \in Projects, LinkProject(p) PROVE Backups'
  BY <1>5 DEF LinkProject
<1>6. CASE LinkMain
  BY <1>6 DEF LinkMain
<1>7. ASSUME NEW i \in 1 .. Len(Layers), LinkLayer(i) PROVE Backups'
  BY <1>7 DEF LinkLayer, LayerTarget
<1>8. CASE BackUp
  <2>1. CASE last # Missing /\ last = conf
    BY <1>8, <2>1 DEF BackUp
  <2>2. CASE ~(last # Missing /\ last = conf)
    <3>1. /\ backup' = [backup EXCEPT ![time] = conf] /\ stamp' = time /\ phase' = "last"
          /\ rushed' = (rushed \/ backup[time] \in Conf)
          /\ UNCHANGED <<conf, last, time, wanted>>
      BY <1>8, <2>2 DEF BackUp
    <3>. SUFFICES ASSUME ~rushed' PROVE
           /\ Holds(conf) \/ \E t \in Time : Holds(backup'[t])
           /\ last \in Conf => \E t \in Time : backup'[t] = last
           /\ backup'[stamp'] = conf
      BY <3>1
    <3>2. ~rushed /\ backup[time] \notin Conf
      BY <3>1
    <3>3. \A t \in Time : backup[t] \in Conf => backup'[t] = backup[t]
      BY <3>1, <3>2
    <3>4. backup'[stamp'] = conf
      BY <3>1
    <3>. QED
      BY <3>2, <3>3, <3>4
  <2>. QED
    BY <2>1, <2>2
<1>9. CASE CopyLast
  BY <1>9 DEF CopyLast
<1>10. CASE Load
  BY <1>10 DEF Load
<1>11. CASE Dump
  BY <1>11 DEF Dump
<1>12. CASE DeleteAllMinionKeys
  BY <1>12 DEF DeleteAllMinionKeys
<1>13. CASE StopMaster
  BY <1>13 DEF StopMaster
<1>14. CASE EnableMaster
  BY <1>14 DEF EnableMaster
<1>15. CASE StartMaster
  BY <1>15 DEF StartMaster
<1>16. CASE RunInitStates
  BY <1>16 DEF RunInitStates
<1>17. CASE Raise
  BY <1>17 DEF Raise
<1>18. CASE Fail
  BY <1>18 DEF Fail, Parts, AtBoot
<1>19. CASE RestoreConf
  BY <1>19 DEF RestoreConf
<1>20. CASE Tick
  BY <1>20 DEF Tick
<1>21. CASE OtherStates
  BY <1>21 DEF OtherStates
<1>22. ASSUME NEW v \in Settings, EditConf(v) PROVE Backups'
  BY <1>22 DEF EditConf
<1>23. CASE UNCHANGED vars
  BY <1>23
<1>. QED
  BY <1>1, <1>2, <1>3, <1>4, <1>5, <1>6, <1>7, <1>8, <1>9, <1>10, <1>11, <1>12,
     <1>13, <1>14, <1>15, <1>16, <1>17, <1>18, <1>19, <1>20, <1>21, <1>22, <1>23
  DEF Next, Script, Environment

\* The script links what it has passed, to its project.
LEMMA LinkedStep == ASSUME TypeOK, Linked, [Next]_vars PROVE Linked'
<1>. USE ConfigureAssumption, LinksAssumption
     DEF Linked, Selected, OfProject, LayerDone, AfterMain, AfterProjects, AfterAlias,
         AfterLayers, TypeOK, Targets, Links, Layers, CommonLinks, Phases,
         vars, scriptVars, confVars, saltVars, history, bounds, LinksOnly, ScriptOnly,
         SaltOnly, Ended, Enter, Link
<1>1. CASE StartAny
  BY <1>1 DEF StartAny, StartAny, Start
<1>2. CASE RemoveOldLinks
  BY <1>2 DEF RemoveOldLinks
<1>3. CASE LinkAliases
  BY <1>3 DEF LinkAliases
<1>4. CASE LinkStates
  BY <1>4 DEF LinkStates
<1>5. ASSUME NEW p \in Projects, LinkProject(p) PROVE Linked'
  BY <1>5 DEF LinkProject
<1>6. CASE LinkMain
  BY <1>6 DEF LinkMain
<1>7. ASSUME NEW i \in 1 .. Len(Layers), LinkLayer(i) PROVE Linked'
  BY <1>7 DEF LinkLayer, LayerTarget
<1>8. CASE BackUp
  BY <1>8 DEF BackUp
<1>9. CASE CopyLast
  BY <1>9 DEF CopyLast
<1>10. CASE Load
  BY <1>10 DEF Load
<1>11. CASE Dump
  BY <1>11 DEF Dump
<1>12. CASE DeleteAllMinionKeys
  BY <1>12 DEF DeleteAllMinionKeys
<1>13. CASE StopMaster
  BY <1>13 DEF StopMaster
<1>14. CASE EnableMaster
  BY <1>14 DEF EnableMaster
<1>15. CASE StartMaster
  BY <1>15 DEF StartMaster
<1>16. CASE RunInitStates
  BY <1>16 DEF RunInitStates
<1>17. CASE Raise
  BY <1>17 DEF Raise
<1>18. CASE Fail
  BY <1>18 DEF Fail, Parts, AtBoot
<1>19. CASE RestoreConf
  BY <1>19 DEF RestoreConf
<1>20. CASE Tick
  BY <1>20 DEF Tick
<1>21. CASE OtherStates
  BY <1>21 DEF OtherStates
<1>22. ASSUME NEW v \in Settings, EditConf(v) PROVE Linked'
  BY <1>22 DEF EditConf
<1>23. CASE UNCHANGED vars
  BY <1>23
<1>. QED
  BY <1>1, <1>2, <1>3, <1>4, <1>5, <1>6, <1>7, <1>8, <1>9, <1>10, <1>11, <1>12,
     <1>13, <1>14, <1>15, <1>16, <1>17, <1>18, <1>19, <1>20, <1>21, <1>22, <1>23
  DEF Next, Script, Environment

\* What is dumped stays, and the Salt master is started with it.
LEMMA RestartedStep == ASSUME TypeOK, Restarted, [Next]_vars PROVE Restarted'
<1>. USE MarksAssumption DEF Restarted, Written, Conf, TypeOK,
         vars, scriptVars, confVars, saltVars, history, bounds, LinksOnly, ScriptOnly,
         SaltOnly, Ended, Enter, Link
<1>1. CASE StartAny
  BY <1>1 DEF StartAny, StartAny, Start
<1>2. CASE RemoveOldLinks
  BY <1>2 DEF RemoveOldLinks
<1>3. CASE LinkAliases
  BY <1>3 DEF LinkAliases
<1>4. CASE LinkStates
  BY <1>4 DEF LinkStates
<1>5. ASSUME NEW p \in Projects, LinkProject(p) PROVE Restarted'
  BY <1>5 DEF LinkProject
<1>6. CASE LinkMain
  BY <1>6 DEF LinkMain
<1>7. ASSUME NEW i \in 1 .. Len(Layers), LinkLayer(i) PROVE Restarted'
  BY <1>7 DEF LinkLayer, LayerTarget
<1>8. CASE BackUp
  BY <1>8 DEF BackUp
<1>9. CASE CopyLast
  BY <1>9 DEF CopyLast
<1>10. CASE Load
  BY <1>10 DEF Load
<1>11. CASE Dump
  BY <1>11 DEF Dump
<1>12. CASE DeleteAllMinionKeys
  BY <1>12 DEF DeleteAllMinionKeys
<1>13. CASE StopMaster
  BY <1>13 DEF StopMaster
<1>14. CASE EnableMaster
  BY <1>14 DEF EnableMaster
<1>15. CASE StartMaster
  BY <1>15 DEF StartMaster
<1>16. CASE RunInitStates
  BY <1>16 DEF RunInitStates
<1>17. CASE Raise
  BY <1>17 DEF Raise
<1>18. CASE Fail
  BY <1>18 DEF Fail, Parts, AtBoot
<1>19. CASE RestoreConf
  BY <1>19 DEF RestoreConf
<1>20. CASE Tick
  BY <1>20 DEF Tick
<1>21. CASE OtherStates
  BY <1>21 DEF OtherStates
<1>22. ASSUME NEW v \in Settings, EditConf(v) PROVE Restarted'
  BY <1>22 DEF EditConf
<1>23. CASE UNCHANGED vars
  BY <1>23
<1>. QED
  BY <1>1, <1>2, <1>3, <1>4, <1>5, <1>6, <1>7, <1>8, <1>9, <1>10, <1>11, <1>12,
     <1>13, <1>14, <1>15, <1>16, <1>17, <1>18, <1>19, <1>20, <1>21, <1>22, <1>23
  DEF Next, Script, Environment

\* Only a run that has ended is completed.
LEMMA FinishedStep == ASSUME Finished, [Next]_vars PROVE Finished'
<1>. USE DEF Finished,
         vars, scriptVars, confVars, saltVars, history, bounds, LinksOnly, ScriptOnly,
         SaltOnly, Ended, Enter, Link
<1>1. CASE StartAny
  BY <1>1 DEF StartAny, StartAny, Start
<1>2. CASE RemoveOldLinks
  BY <1>2 DEF RemoveOldLinks
<1>3. CASE LinkAliases
  BY <1>3 DEF LinkAliases
<1>4. CASE LinkStates
  BY <1>4 DEF LinkStates
<1>5. ASSUME NEW p \in Projects, LinkProject(p) PROVE Finished'
  BY <1>5 DEF LinkProject
<1>6. CASE LinkMain
  BY <1>6 DEF LinkMain
<1>7. ASSUME NEW i \in 1 .. Len(Layers), LinkLayer(i) PROVE Finished'
  BY <1>7 DEF LinkLayer, LayerTarget
<1>8. CASE BackUp
  BY <1>8 DEF BackUp
<1>9. CASE CopyLast
  BY <1>9 DEF CopyLast
<1>10. CASE Load
  BY <1>10 DEF Load
<1>11. CASE Dump
  BY <1>11 DEF Dump
<1>12. CASE DeleteAllMinionKeys
  BY <1>12 DEF DeleteAllMinionKeys
<1>13. CASE StopMaster
  BY <1>13 DEF StopMaster
<1>14. CASE EnableMaster
  BY <1>14 DEF EnableMaster
<1>15. CASE StartMaster
  BY <1>15 DEF StartMaster
<1>16. CASE RunInitStates
  BY <1>16 DEF RunInitStates
<1>17. CASE Raise
  BY <1>17 DEF Raise
<1>18. CASE Fail
  BY <1>18 DEF Fail, Parts, AtBoot
<1>19. CASE RestoreConf
  BY <1>19 DEF RestoreConf
<1>20. CASE Tick
  BY <1>20 DEF Tick
<1>21. CASE OtherStates
  BY <1>21 DEF OtherStates
<1>22. ASSUME NEW v \in Settings, EditConf(v) PROVE Finished'
  BY <1>22 DEF EditConf
<1>23. CASE UNCHANGED vars
  BY <1>23
<1>. QED
  BY <1>1, <1>2, <1>3, <1>4, <1>5, <1>6, <1>7, <1>8, <1>9, <1>10, <1>11, <1>12,
     <1>13, <1>14, <1>15, <1>16, <1>17, <1>18, <1>19, <1>20, <1>21, <1>22, <1>23
  DEF Next, Script, Environment

\* A completed run leaves what it is to leave, and nothing changes it.
LEMMA ConfiguredStep ==
  ASSUME TypeOK, Linked, Restarted, Finished, Configured, [Next]_vars
  PROVE  Configured'
<1>. USE DEF Configured, Finished, Conf, TypeOK,
         vars, scriptVars, confVars, saltVars, history, bounds, LinksOnly, ScriptOnly,
         SaltOnly, Ended, Enter, Link
<1>1. CASE StartAny
  BY <1>1 DEF StartAny, StartAny, Start
<1>2. CASE RemoveOldLinks
  BY <1>2 DEF RemoveOldLinks
<1>3. CASE LinkAliases
  BY <1>3 DEF LinkAliases
<1>4. CASE LinkStates
  BY <1>4 DEF LinkStates
<1>5. ASSUME NEW p \in Projects, LinkProject(p) PROVE Configured'
  BY <1>5 DEF LinkProject
<1>6. CASE LinkMain
  BY <1>6 DEF LinkMain
<1>7. ASSUME NEW i \in 1 .. Len(Layers), LinkLayer(i) PROVE Configured'
  BY <1>7 DEF LinkLayer, LayerTarget
<1>8. CASE BackUp
  BY <1>8 DEF BackUp
<1>9. CASE CopyLast
  BY <1>9 DEF CopyLast
<1>10. CASE Load
  BY <1>10 DEF Load
<1>11. CASE Dump
  BY <1>11 DEF Dump
<1>12. CASE DeleteAllMinionKeys
  BY <1>12 DEF DeleteAllMinionKeys
<1>13. CASE StopMaster
  BY <1>13 DEF StopMaster
<1>14. CASE EnableMaster
  BY <1>14 DEF EnableMaster
<1>15. CASE StartMaster
  BY <1>15 DEF StartMaster
<1>16. CASE RunInitStates
  <2>1. phase = "init_states" /\ completed' /\ UNCHANGED <<props, project, links, conf, running, since, unstopped>>
    BY <1>16 DEF RunInitStates
  <2>2. OfProject("main.sls") /\ OfProject("defaults") /\ links["alias"] = props.project
        /\ links["overrides"] = props.project /\ links["states"] = "common"
        /\ links["commons"] = "common" /\ \A p \in props.projects : links[p] = p
    BY <2>1 DEF Linked, AfterMain, AfterLayers, AfterAlias, AfterProjects, LayerDone
  <2>3. Written(conf) /\ running \in Conf /\ running.own /\ (unstopped \/ Written(running))
    BY <1>16, <2>1 DEF Restarted, RunInitStates, Serves
  <2>4. sources' = props.project /\ accepted'
    BY <1>16, <2>2 DEF RunInitStates
  <2>. QED
    BY <2>1, <2>2, <2>3, <2>4 DEF OfProject, Written
<1>17. CASE Raise
  BY <1>17 DEF Raise
<1>18. CASE Fail
  BY <1>18 DEF Fail, Parts, AtBoot
<1>19. CASE RestoreConf
  <2>1. ~completed /\ completed' = completed
    BY <1>19, MarksAssumption DEF RestoreConf
  <2>. QED
    BY <2>1
<1>20. CASE Tick
  BY <1>20 DEF Tick
<1>21. CASE OtherStates
  <2>1. UNCHANGED <<props, project, completed, links, conf, running, since, unstopped, accepted>>
    BY <1>21 DEF OtherStates
  <2>2. completed => sources = props.project /\ sources # Missing
    BY ConfigureAssumption DEF Targets
  <2>3. completed => sources' = sources
    BY <1>21, <2>2 DEF OtherStates
  <2>. QED
    BY <2>1, <2>2, <2>3 DEF OfProject
<1>22. ASSUME NEW v \in Settings, EditConf(v) PROVE Configured'
  <2>1. UNCHANGED <<props, project, completed, links, sources, running, unstopped, accepted>>
    BY <1>22 DEF EditConf
  <2>2. conf' = [conf EXCEPT !.custom = v] /\ conf \in Conf /\ since \subseteq since'
    BY <1>22 DEF EditConf
  <2>3. conf' \in Conf /\ conf'.own = conf.own
    BY <2>2
  <2>. QED
    BY <2>1, <2>2, <2>3 DEF OfProject
<1>23. CASE UNCHANGED vars
  BY <1>23 DEF OfProject
<1>. QED
  BY <1>1, <1>2, <1>3, <1>4, <1>5, <1>6, <1>7, <1>8, <1>9, <1>10, <1>11, <1>12,
     <1>13, <1>14, <1>15, <1>16, <1>17, <1>18, <1>19, <1>20, <1>21, <1>22, <1>23
  DEF Next, Script, Environment

-----------------------------------------------------------------------------
(* Theorems *)

LEMMA InitInv == Init => Inv
<1>. SUFFICES ASSUME Init PROVE Inv
  OBVIOUS
<1>. USE ConfigureAssumption, MarksAssumption DEF Init
<1>1. conf \in Conf /\ Holds(conf)
  BY DEF Conf, Holds
<1>2. TypeOK
  <2>1. enabled \in BOOLEAN /\ completed \in BOOLEAN /\ accepted \in BOOLEAN
        /\ rushed \in BOOLEAN /\ unstopped \in BOOLEAN
    BY Zenon
  <2>2. wanted \in Settings \cup {Nothing} /\ loaded \in Conf
    BY DEF Conf, Empty
  <2>. QED
    BY <1>1, <2>1, <2>2 DEF TypeOK, Phases, Targets, Time
<1>3. Backups
  BY <1>1 DEF Backups
<1>4. Linked
  BY DEF Linked, AfterMain, AfterProjects, AfterAlias, AfterLayers, LayerDone
<1>5. Restarted /\ Finished /\ Configured
  BY DEF Restarted, Finished, Configured
<1>. QED
  BY <1>2, <1>3, <1>4, <1>5 DEF Inv

\* The invariant holds in every reachable state.
THEOREM InductiveInvariant == Spec => []Inv
<1>1. Inv /\ [Next]_vars => Inv'
  BY TypeStep, BackupsStep, LinkedStep, RestartedStep, FinishedStep, ConfiguredStep, Zenon
  DEF Inv
<1>. QED
  BY InitInv, <1>1, PTL DEF Spec

\* Type correctness: what the script, an interrupted command, the operator and
\* other runs of the states leave has its type.
THEOREM TypeCorrect == Spec => []TypeOK
<1>1. Inv => TypeOK
  BY DEF Inv
<1>. QED
  BY InductiveInvariant, <1>1, PTL

\* hosts_file.py do_backup and the dump of configure_salt.py: wherever a run is
\* killed, and as often as runs are, what the operator has set last is in
\* /etc/salt/master or in a whole backup of it, if no two backups are taken
\* within a second and no one edits the file between backup and dump.
THEOREM SettingsAreKept == Spec => []SettingsKept
<1>1. Inv => SettingsKept
  BY DEF Inv, Backups, SettingsKept
<1>. QED
  BY InductiveInvariant, <1>1, PTL

\* A run of configure_salt.py that completes leaves all links to its project and
\* a Salt master that runs with the configuration it has loaded and written,
\* whatever runs were cut short before it and for whichever projects they were.
THEOREM CompletedIsConfigured == Spec => []Configured
<1>1. Inv => Configured
  BY DEF Inv
<1>. QED
  BY InductiveInvariant, <1>1, PTL
=============================================================================
