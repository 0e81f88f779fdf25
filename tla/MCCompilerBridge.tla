-------------------------- MODULE MCCompilerBridge --------------------------
(* Two compile calls; serial runs add two warm-ups and reject one source.  *)
EXTENDS CompilerBridge
=============================================================================
