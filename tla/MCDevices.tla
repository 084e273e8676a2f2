----------------------------- MODULE MCDevices -----------------------------
(***************************************************************************)
(* The owners of descriptors, the components that talk to devices, and the *)
(* configuration files.  They do not interact and are checked one at a     *)
(* time: which one a behaviour is about is chosen at its start.            *)
(***************************************************************************)
EXTENDS MCLine, SerialReader, HugePages, RwDisk, Descriptors, MCConfig

VARIABLE part

Parts == {"line", "reader", "pages", "disk", "descriptors", "config"}

\* The components that a behaviour is not about start in one state each.
MCInit ==
    /\ part \in Parts
    /\ LineInit /\ (part # "line" => ~windows /\ oddOnce = {})
    /\ ReaderInit /\ (part # "reader" => ~onWindows)
    /\ PagesInit /\ DiskInit
    /\ FdInit
    /\ part # "descriptors" =>
          /\ ~threaded /\ \A o \in Files : hold[o] = -1
          /\ cast = CHOOSE c \in SUBSET Owners : Cardinality(c) = CastSize
    /\ Init /\ (part # "config" => file = Empty)

MCNext ==
    \/ /\ part = "line" /\ LineNext
       /\ UNCHANGED <<readerVars, pageVars, diskVars, fdVars, vars>>
    \/ /\ part = "reader" /\ ReaderNext
       /\ UNCHANGED <<lineVars, pageVars, diskVars, fdVars, vars>>
    \/ /\ part = "pages" /\ PagesNext
       /\ UNCHANGED <<lineVars, readerVars, diskVars, fdVars, vars>>
    \/ /\ part = "disk" /\ DiskNext
       /\ UNCHANGED <<lineVars, readerVars, pageVars, fdVars, vars>>
    \/ /\ part = "descriptors" /\ FdNext
       /\ UNCHANGED <<lineVars, readerVars, pageVars, diskVars, vars>>
    \/ /\ part = "config" /\ Next
       /\ UNCHANGED <<lineVars, readerVars, pageVars, diskVars, fdVars>>

MCSpec ==
    /\ MCInit
    /\ [][MCNext /\ UNCHANGED part]_<<part, lineVars, readerVars, pageVars,
                                     diskVars, fdVars, vars>>
=============================================================================
