----------------------------- MODULE MetaTools -----------------------------
(***************************************************************************)
(* The metadata generators run over one binary: frametypes, then         *)
(* frametypes2 --output-traditional (PipelineSpec of FrameTypes2), then   *)
(* the allocation-site helpers on the binary's .allocs file (AllocSites).  *)
(* They share no state: each is a batch program that starts when the one  *)
(* before it has ended, so the allocation-site tool runs once from each   *)
(* end state of the frame-type tools.                                      *)
(***************************************************************************)
EXTENDS FrameTypes2, AllocSites

frameVars == <<vars, vars2>>

FramesEnded == phase2 \in {"done", "aborted"}

MetaInit == PipelineInit /\ AllocInit

MetaNext ==
    \/ PipelineNext /\ UNCHANGED allocVars
    \/ FramesEnded /\ OpenAllocs /\ UNCHANGED frameVars
    \/ ReadLine /\ UNCHANGED frameVars
    \/ ReadStop /\ UNCHANGED frameVars
    \/ RelateSite /\ UNCHANGED frameVars
    \/ RelateDone /\ UNCHANGED frameVars

MetaSpec == MetaInit /\ [][MetaNext]_<<frameVars, allocVars>>
====
