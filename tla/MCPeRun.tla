------------------------------ MODULE MCPeRun ------------------------------
(* An executable, and DLLs with a DllMain and without, one of them so large *)
(* that it reaches to where the first image is mapped; one file and one     *)
(* scripted host; two system DLLs that import from and forward to each      *)
(* other, one of them to itself, one that imports that, and one that is no  *)
(* image at all.                                                            *)
EXTENDS PeRun, TLC

Sample(isDll, base, size, entry, exports, loads, bound) ==
    [isDll |-> isDll, base |-> base, size |-> size, entry |-> entry, exports |-> exports,
     loads |-> loads, calls |-> bound]
Choice(mode, wanted, attach, detach, hybrid) ==
    [mode |-> mode, wanted |-> wanted, attach |-> attach, detach |-> detach, hybrid |-> hybrid]

\* At the linkers' default bases, 0x140000000 and 0x180000000.
Exe(loads, bound) == Sample(FALSE, 1310720, 4, TRUE, <<FALSE>>, loads, bound)
Dll(entry, exports) == Sample(TRUE, 1572864, 240, entry, exports, TRUE, 1)
LargeDll == Sample(TRUE, 1572864, 300, TRUE, <<FALSE>>, TRUE, 2)

MCCases ==
    {<<Exe(TRUE, 4), Choice("export", 0, TRUE, TRUE, FALSE)>>,
     <<Exe(TRUE, 1), Choice("export", 0, TRUE, TRUE, TRUE)>>,
     <<Exe(FALSE, 0), Choice("export", 0, TRUE, TRUE, TRUE)>>,
     <<Dll(TRUE, <<TRUE, FALSE, FALSE, FALSE>>), Choice("all", 0, TRUE, TRUE, TRUE)>>,
     <<Dll(FALSE, <<TRUE>>), Choice("all", 0, TRUE, TRUE, TRUE)>>,
     <<Dll(TRUE, <<TRUE, FALSE>>), Choice("export", 0, TRUE, TRUE, TRUE)>>,
     <<Dll(TRUE, <<TRUE, FALSE>>), Choice("export", 1, TRUE, TRUE, TRUE)>>,
     <<Dll(TRUE, <<FALSE>>), Choice("export", 1, FALSE, TRUE, TRUE)>>,
     <<Dll(TRUE, <<TRUE>>), Choice("export", 0, TRUE, FALSE, TRUE)>>,
     <<Dll(TRUE, <<FALSE>>), Choice("attach", 0, TRUE, FALSE, TRUE)>>,
     <<Dll(FALSE, <<FALSE>>), Choice("attach", 0, TRUE, FALSE, TRUE)>>,
     <<LargeDll, Choice("attach", 0, TRUE, FALSE, FALSE)>>}

MCVfsFiles == ("a" :> <<"x">>)
MCScript == <<<<"x", "y", "x">>, <<"y">>>>

Export == [fwd |-> FALSE]
To(dll, name, bare) == [fwd |-> TRUE, dll |-> dll, name |-> name, bare |-> bare]
MCImage ==
    ("k" :> [size |-> 2, imports |-> {<<"n", "f">>, <<"n", "g">>}, broken |-> "no",
             exports |-> ("f" :> Export @@ "h" :> To("n", "f", FALSE))]) @@
    ("n" :> [size |-> 3, imports |-> {<<"k", "f">>}, broken |-> "no",
             exports |-> ("f" :> Export @@ "g" :> To("k", "h", FALSE)
                          @@ "l" :> To("n", "l", FALSE))]) @@
    ("b" :> [size |-> 1, imports |-> {<<"k", "h">>, <<"n", "l">>}, broken |-> "no",
             exports |-> ("f" :> Export)]) @@
    ("p" :> [size |-> 1, imports |-> {}, broken |-> "parse", exports |-> ("f" :> Export)])
MCBareImage ==
    [d \in {"k", "n"} |->
        IF d = "k" THEN [MCImage["k"] EXCEPT !.exports = "h" :> To("n", "f", TRUE)]
                   ELSE MCImage["n"]]
=============================================================================
