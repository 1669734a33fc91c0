----------------------------- MODULE MCArchive -----------------------------
(***************************************************************************)
(* Small instances, for TLC, of what runs between an upload and its        *)
(* workbook: a run inspects a package, feeds a record counter, reads the   *)
(* head of a table, or opens a workbook; the others stay as they are.      *)
(***************************************************************************)
EXTENDS ArchiveInspection, RecordCounter, TableHead, OpenWorkbook

(* Before the root nothing, an XML declaration, or a comment that has a    *)
(* root of its own; in a value also what may mislead a scan.               *)
AllPrologs ==
    {<<>>, <<".", "x", ".", ">">>,
     <<".", Start, Space, Attr, "=", "q", "9", "q", ".", ">">>}
AllValues ==
    {<<>>, <<"x">>, <<"1", "0">>, <<"9", "9">>,
     <<"1", "x", "0">>, <<"1", ">", "0">>, <<Attr, "=", "q", "9", "q">>}

PackageInit == ArchiveInit /\ RCInit /\ HeadInit /\ OpenInit

Inspecting == entry # 0 \/ verdict # "none"
Counting == fed # <<>>
Scanning == root # <<>>
Opening == stage # "none"

PackageNext ==
    \/ /\ ~Counting /\ ~Scanning /\ ~Opening
       /\ ArchiveNext /\ UNCHANGED <<rcVars, headVars, openVars>>
    \/ /\ ~Inspecting /\ ~Scanning /\ ~Opening
       /\ RCNext /\ UNCHANGED <<archiveVars, headVars, openVars>>
    \/ /\ ~Inspecting /\ ~Counting /\ ~Opening
       /\ HeadNext /\ UNCHANGED <<archiveVars, rcVars, openVars>>
    \/ /\ ~Inspecting /\ ~Counting /\ ~Scanning
       /\ OpenNext /\ UNCHANGED <<archiveVars, rcVars, headVars>>

packageVars == <<archiveVars, rcVars, headVars, openVars>>
PackageSpec == PackageInit /\ [][PackageNext]_packageVars
=============================================================================
