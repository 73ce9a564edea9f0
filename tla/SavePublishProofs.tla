------------------------- MODULE SavePublishProofs --------------------------
(* Theorems about SavePublish, for every set of save images. *)
EXTENDS SavePublish, TLAPS

LEMMA InitInv == Init => IInv
  BY PublishAssumption
  DEF Init, IInv, TypeOK, SaveNeverLost, AtCall, Settled, Recoverable, Has,
      Names, Contents, Steps

(* Every FatFs call, successful or not, keeps the directory in the shape   *)
(* AtCall gives for the next call.                                         *)
LEMMA StepInv == IInv /\ [Next]_vars => IInv'
<1> SUFFICES ASSUME IInv, [Next]_vars PROVE IInv'
  OBVIOUS
<1> USE PublishAssumption
    DEF IInv, TypeOK, SaveNeverLost, AtCall, Settled, Publishing, Recoverable,
        Has, Unlink, Rename, Names, Contents, Steps, Fail, Finish, GoTo
<1>1. CASE RecoverNothing BY <1>1 DEF RecoverNothing
<1>2. CASE RecoverDropOld BY <1>2 DEF RecoverDropOld
<1>3. CASE RecoverOld BY <1>3 DEF RecoverOld
<1>4. CASE RecoverFails BY <1>4 DEF RecoverFails
<1>5. CASE Load BY <1>5 DEF Load
<1>6. CASE OpenSave BY <1>6 DEF OpenSave
<1>7. CASE OpenSaveFails BY <1>7 DEF OpenSaveFails
<1>8. ASSUME NEW v \in Saves, Persist(v) PROVE IInv'
  BY <1>8 DEF Persist
<1>9. CASE UnlinkStaleTemp BY <1>9 DEF UnlinkStaleTemp
<1>10. CASE UnlinkStaleTempFails BY <1>10 DEF UnlinkStaleTempFails
<1>11. CASE OpenTemp BY <1>11 DEF OpenTemp
<1>12. CASE OpenTempFails BY <1>12 DEF OpenTempFails
<1>13. CASE WriteAndSync BY <1>13 DEF WriteAndSync
<1>14. CASE WriteFails BY <1>14 DEF WriteFails
<1>15. CASE DiscardTemp BY <1>15 DEF DiscardTemp
<1>16. CASE StageOld BY <1>16 DEF StageOld
<1>17. CASE StageNothing BY <1>17 DEF StageNothing
<1>18. CASE StageFails BY <1>18 DEF StageFails
<1>19. CASE SwapIn BY <1>19 DEF SwapIn
<1>20. CASE SwapInFails BY <1>20 DEF SwapInFails
<1>21. CASE CheckSize BY <1>21 DEF CheckSize
<1>22. CASE CheckSizeFails BY <1>22 DEF CheckSizeFails
<1>23. CASE Unstage BY <1>23 DEF Unstage
<1>24. CASE DropOld BY <1>24 DEF DropOld
<1>25. CASE DropOldFails BY <1>25 DEF DropOldFails
<1>26. CASE PowerCut BY <1>26 DEF PowerCut
<1>27. CASE UNCHANGED vars BY <1>27 DEF vars
<1> QED
  BY <1>1, <1>2, <1>3, <1>4, <1>5, <1>6, <1>7, <1>8, <1>9, <1>10, <1>11, <1>12,
     <1>13, <1>14, <1>15, <1>16, <1>17, <1>18, <1>19, <1>20, <1>21, <1>22,
     <1>23, <1>24, <1>25, <1>26, <1>27
  DEF Next, PersistAny, Proceed, Fault

THEOREM Invariance == Spec => []IInv
  BY InitInv, StepInv, PTL DEF Spec

(* The variables stay in their types. *)
THEOREM TypeCorrect == Spec => []TypeOK
  BY Invariance, PTL DEF IInv

(* At every instant a whole save can be recovered, the one before the      *)
(* running job or the one it publishes.                                    *)
THEOREM SafeSave == Spec => []SaveNeverLost
  BY Invariance, PTL DEF IInv

-----------------------------------------------------------------------------
(* Every FatFs call is a step of the atomically replaced save, or none. *)

LEMMA InitMaps == Init => Abstract!Init
  BY PublishAssumption DEF Init, Abstract!Init, Recoverable, Has

LEMMA StepMaps == IInv /\ [Next]_vars => [Abstract!Next]_(Abstract!vars)
<1> SUFFICES ASSUME IInv, [Next]_vars PROVE [Abstract!Next]_(Abstract!vars)
  OBVIOUS
<1> DEFINE Still == UNCHANGED Abstract!vars
<1> USE PublishAssumption
    DEF IInv, TypeOK, SaveNeverLost, AtCall, Settled, Publishing, Recoverable,
        Has, Unlink, Rename, Names, Contents, Steps, Fail, Finish, GoTo,
        Abstract!vars, Abstract!Stop, Abstract!Replace
<1>1. ASSUME RecoverNothing PROVE Still
  BY <1>1 DEF RecoverNothing
<1>2. ASSUME RecoverDropOld PROVE Still
  BY <1>2 DEF RecoverDropOld
<1>3. ASSUME RecoverOld PROVE Still
  BY <1>3 DEF RecoverOld
<1>4. ASSUME RecoverFails PROVE Abstract!Stop \/ Still
  BY <1>4 DEF RecoverFails
<1>5. ASSUME Load PROVE Still
  BY <1>5 DEF Load
<1>6. ASSUME OpenSave PROVE Abstract!Read
  BY <1>6 DEF OpenSave, Abstract!Read
<1>7. ASSUME OpenSaveFails PROVE Abstract!Stop
  BY <1>7 DEF OpenSaveFails
<1>8. ASSUME NEW v \in Saves, Persist(v) PROVE Abstract!Begin(v)
  BY <1>8 DEF Persist, Abstract!Begin
<1>9. ASSUME UnlinkStaleTemp PROVE Still
  BY <1>9 DEF UnlinkStaleTemp
<1>10. ASSUME UnlinkStaleTempFails PROVE Abstract!Stop
  BY <1>10 DEF UnlinkStaleTempFails
<1>11. ASSUME OpenTemp PROVE Still
  BY <1>11 DEF OpenTemp
<1>12. ASSUME OpenTempFails PROVE Abstract!Stop
  BY <1>12 DEF OpenTempFails
<1>13. ASSUME WriteAndSync PROVE Still
  BY <1>13 DEF WriteAndSync
<1>14. ASSUME WriteFails PROVE Still
  BY <1>14 DEF WriteFails
<1>15. ASSUME DiscardTemp PROVE Abstract!Stop
  BY <1>15 DEF DiscardTemp
<1>16. ASSUME StageOld PROVE Still
  BY <1>16 DEF StageOld
<1>17. ASSUME StageNothing PROVE Still
  BY <1>17 DEF StageNothing
<1>18. ASSUME StageFails PROVE Still
  BY <1>18 DEF StageFails
<1>19. ASSUME SwapIn PROVE Abstract!Replace
  BY <1>19 DEF SwapIn
<1>20. ASSUME SwapInFails PROVE Still
  BY <1>20 DEF SwapInFails
<1>21. ASSUME CheckSize PROVE Abstract!Succeed \/ Still
  BY <1>21 DEF CheckSize, Abstract!Succeed
<1>22. ASSUME CheckSizeFails PROVE Abstract!Replace \/ Still
  BY <1>22 DEF CheckSizeFails
<1>23. ASSUME Unstage PROVE Abstract!Replace \/ Still
  BY <1>23 DEF Unstage
<1>24. ASSUME DropOld PROVE Abstract!Succeed
  BY <1>24 DEF DropOld, Abstract!Succeed
<1>25. ASSUME DropOldFails PROVE Still
  BY <1>25 DEF DropOldFails
<1>26. ASSUME PowerCut PROVE Abstract!Stop
  BY <1>26 DEF PowerCut
<1>27. ASSUME UNCHANGED vars PROVE Still
  BY <1>27 DEF vars
<1> QED
  BY <1>1, <1>2, <1>3, <1>4, <1>5, <1>6, <1>7, <1>8, <1>9, <1>10, <1>11, <1>12,
     <1>13, <1>14, <1>15, <1>16, <1>17, <1>18, <1>19, <1>20, <1>21, <1>22,
     <1>23, <1>24, <1>25, <1>26, <1>27
  DEF Next, PersistAny, Proceed, Fault, Abstract!Next

(* The three files and their renames implement the atomically replaced     *)
(* save, through every error and power cut.                                *)
THEOREM Refinement == Spec => ReplacesAtomically
<1>1. Spec => []IInv
  BY Invariance
<1>2. QED
  BY InitMaps, StepMaps, <1>1, PTL DEF Spec, ReplacesAtomically, Abstract!Spec
=============================================================================
