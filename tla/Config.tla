------------------------------- MODULE Config -------------------------------
(***************************************************************************)
(* A configuration file that CCfgFile::writeString() rewrites, and that    *)
(* CCfgFile::getString() and the constructor of CIniFile may read at any   *)
(* time.  writeString() builds the new text in memory, truncates the file  *)
(* by fopen(.., "w") and writes it; the process may crash in between.      *)
(***************************************************************************)
EXTENDS CfgFile, IniFile

CONSTANTS
    FirstLines,   \* bound: the lines the first file is made of
    MaxLines,     \* bound: length of the first file
    NewValues,    \* bound: the values that are written
    MaxWrites,    \* bound: calls of writeString()
    MaxCrashes    \* bound: crashes

ASSUME ConfigAssumption ==
    /\ FirstLines \subseteq Line /\ NewValues \subseteq Seq(Words)
    /\ MaxLines \in Nat /\ MaxWrites \in Nat /\ MaxCrashes \in Nat

VARIABLES
    file,     \* what is on the disk
    pBuf,     \* the new text
    pc,       \* writeString() is at: "idle", "built", "truncated"
    args,     \* its arguments
    writes, crashes

vars == <<file, pBuf, pc, args, writes, crashes>>

NoArgs == [section |-> NoTitle, name |-> NoTitle, value |-> NotFound]

Init ==
    /\ \E lines \in BoundedSeq(FirstLines, MaxLines), eol \in BOOLEAN :
          file = File(lines, lines = <<>> \/ eol)
    /\ pBuf = Empty /\ pc = "idle" /\ args = NoArgs
    /\ writes = 0 /\ crashes = 0

\* fopen(.., "r"), and everything up to fclose().
Build(section, name, value) ==
    /\ pc = "idle" /\ writes < MaxWrites
    /\ pBuf' \in writeString(file, section, name, value)
    /\ args' = [section |-> section, name |-> name, value |-> value]
    /\ pc' = "built" /\ writes' = writes + 1
    /\ UNCHANGED <<file, crashes>>

\* fopen(.., "w")
Truncate ==
    /\ pc = "built"
    /\ file' = Empty /\ pc' = "truncated"
    /\ UNCHANGED <<pBuf, args, writes, crashes>>

\* fwrite() and fclose()
Write ==
    /\ pc = "truncated"
    /\ file' = pBuf
    /\ pBuf' = Empty /\ pc' = "idle" /\ args' = NoArgs
    /\ UNCHANGED <<writes, crashes>>

\* The process dies; the file stays as it is.
Crash ==
    /\ pc # "idle" /\ crashes < MaxCrashes
    /\ crashes' = crashes + 1
    /\ pBuf' = Empty /\ pc' = "idle" /\ args' = NoArgs
    /\ UNCHANGED <<file, writes>>

Next ==
    \/ \E section \in Sections, name \in Names, value \in NewValues :
          Build(section, name, value)
    \/ Truncate \/ Write \/ Crash

Spec == Init /\ [][Next]_vars

-----------------------------------------------------------------------------
TypeOK ==
    /\ file \in Texts /\ pBuf \in Texts
    /\ pc \in {"idle", "built", "truncated"}
    /\ args \in [section : Sections \cup {NoTitle}, name : Names \cup {NoTitle},
                value : Seq(Words)]
    /\ writes \in Nat /\ crashes \in Nat

\* The files that the classes are made for, by how strict one is.
EndsWell(f) == f.eol /\ f.lines # <<>>
NoTail(f) == \A i \in DOMAIN f.lines :
                IsHeader(f.lines[i]) => f.lines[i].form # "tail"
PlainText(f) ==
    /\ EndsWell(f)
    /\ \A i \in DOMAIN f.lines :
          /\ IsHeader(f.lines[i]) => f.lines[i].form = "exact"
          /\ IsOption(f.lines[i]) =>
                /\ f.lines[i].form = "exact"
                /\ Range(f.lines[i].value) \cap Names = {}
TitlesDiffer(f) ==
    \A i, j \in DOMAIN f.lines :
        IsHeader(f.lines[i]) /\ IsHeader(f.lines[j]) =>
            (f.lines[i].name = f.lines[j].name => i = j)
HasTitle(f, section) ==
    \E i \in DOMAIN f.lines : IsHeader(f.lines[i]) /\ f.lines[i].name = section

(* writeString() of a file that ends with a newline: the new text is the    *)
(* old one with the new option put in, or put in the place of an option of  *)
(* that name, or after a new header at the end.  Every other line, remarks  *)
(* and headers included, is still there and in its order.                   *)
LinesKept ==
    pc = "built" /\ EndsWell(file) =>
        \E i \in DOMAIN pBuf.lines :
            LET others == RemoveAt(pBuf.lines, i) IN
            /\ pBuf.lines[i] = Option(args.name, args.value, "exact")
            /\ \/ others = file.lines
               \/ others = Append(file.lines, Header(args.name, "exact"))
               \/ /\ i \in DOMAIN file.lines /\ others = RemoveAt(file.lines, i)
                  /\ IsOption(file.lines[i]) /\ file.lines[i].name = args.name

\* The values of a name with a new first one.
Renewed(old, value) ==
    [k \in DOMAIN old \cup {1} |-> IF k = 1 THEN value ELSE old[k]]

(* What the classes make of a value that was written to a section of a      *)
(* plain file: getString() returns it up to the first sign of a remark.     *)
(* CIniFile has it up to a ";" behind a blank, in front of the values of    *)
(* the further options of that name that the section had, and has the       *)
(* other values of the name unchanged.                                      *)
ReadBack ==
    pc = "built" /\ PlainText(file) /\ TitlesDiffer(file) /\ HasTitle(file, args.section) =>
        LET old == Values(file, args.section, args.name)
            m_values == ini_parse_file(pBuf)
        IN  /\ getString(pBuf, args.section, args.name) = Before(args.value, Signs)
            /\ HasSection(m_values, args.section)
            /\ m_values[<<args.section, args.name>>] = Renewed(old, Before(args.value, Blank))

(* writeString() changes no option but its own, as CIniFile sees the file:  *)
(* in particular none of the same name in another section.                  *)
OthersKept ==
    pc = "built" /\ EndsWell(file) /\ NoTail(file) =>
        \A section \in Titles, name \in Names :
            \/ name = args.name /\ section \in {args.section, args.name}
            \/ Values(pBuf, section, name) = Values(file, section, name)

(* Whatever has been written to it, of a plain file with different titles   *)
(* getString() finds the first of the values that CIniFile has, up to the   *)
(* first sign of a remark: the two parsers, which have nothing in common,   *)
(* take the same line.                                                      *)
SameMeaning ==
    PlainText(file) /\ TitlesDiffer(file) =>
        \A section \in Titles, name \in Names :
            LET m_values == ini_parse_file(file) IN
            HasValue(m_values, section, name) =>
                getString(file, section, name) = Shown(Head(m_values[<<section, name>>]))

(* "Section not found", and "adding the option" (cfgfile.cpp:391 and :402): *)
(* a value that writeString() added is found by getString().                *)
AddedIsFound ==
    pc = "built" /\ PlainText(file) =>
        getString(pBuf, args.section, args.name) = Shown(args.value)
=============================================================================
