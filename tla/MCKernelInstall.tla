--------------------------- MODULE MCKernelInstall ---------------------------
(* Small instances of KernelInstall: two bundles, both deliveries, with    *)
(* and without --overwrite, against maintainer scripts that behave or fail *)
(* in one way each.                                                        *)
EXTENDS KernelInstall

MCRoles == {"image", "headers", "bootsupport"}

Request(b, d, o) == [bundle |-> b, delivery |-> d, overwrite |-> o, dryRun |-> FALSE]

Machine(f, t, s, x, h) == [fallback |-> f, tree |-> t, support |-> s,
                           foreign |-> x, hook |-> h]

MCMachines == {Machine("labelled", "embedded", "none", "none", "none"),
               Machine("shortcut", "shared", "installed", "none", "retirable"),
               Machine("labelled", "exact", "installed", "exact", "none"),
               Machine("labelled", "shared", "none", "exact", "none")}

MCRequests ==
    {Request(MCRoles, "external", o) : o \in BOOLEAN}
    \cup {Request({"image"}, "embedded", o) : o \in BOOLEAN}
    \cup {[Request(MCRoles, "external", FALSE) EXCEPT !.dryRun = TRUE]}

Behaved == [target |-> "embedded", fallback |-> "promoted", foreign |-> "same",
            bytes |-> "same", sharedTree |-> "same", hook |-> "same",
            initrd |-> TRUE]

MCScriptEffects ==
    {Behaved,
     [Behaved EXCEPT !.target = "external", !.sharedTree = "target"],
     [Behaved EXCEPT !.initrd = FALSE],
     [Behaved EXCEPT !.target = "incomplete"],
     [Behaved EXCEPT !.fallback = "lost"],
     [Behaved EXCEPT !.bytes = "altered"],
     [Behaved EXCEPT !.foreign = "target"],
     [Behaved EXCEPT !.hook = "retirable"]}

\* The instance for crashes and retries: one machine, two requests.
RetryMachines == {Machine("shortcut", "shared", "installed", "none", "retirable")}
RetryRequests == {Request(MCRoles, "external", o) : o \in BOOLEAN}
RetryEffects  == {[Behaved EXCEPT !.target = "external"],
                  [Behaved EXCEPT !.initrd = FALSE]}
=============================================================================
