---------------------------- MODULE MCProcedures ----------------------------
(***************************************************************************)
(* Small instances, for TLC, of what runs by itself, in one task and with  *)
(* no state shared: what is between an upload and its workbook, a formula  *)
(* stream's body, and a body that sends items. A behaviour is one of them, *)
(* and the others stay as they are.                                        *)
(***************************************************************************)
EXTENDS MCArchive, FormulaStream, ItemStream

NoItems == rpc = "pictures" /\ itemsOf = <<>> /\ stageOf = "idle" /\ next = 1 /\ events = <<>>
BodiesInit == Init /\ (NoItems \/ (~sparse /\ ItemInit))
BodiesNext ==
    \/ stageOf = "idle" /\ Next /\ UNCHANGED itemVars
    \/ stageOf # "idle" /\ ItemNext /\ UNCHANGED vars

ProceduresInit == PackageInit /\ BodiesInit
ProceduresNext ==
    \/ Init /\ sparse /\ NoItems /\ PackageNext /\ UNCHANGED <<vars, itemVars>>
    \/ PackageInit /\ BodiesNext /\ UNCHANGED packageVars
ProceduresSpec == ProceduresInit /\ [][ProceduresNext]_<<packageVars, vars, itemVars>>
=============================================================================
