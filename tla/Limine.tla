-------------------------------- MODULE Limine -------------------------------
(***************************************************************************)
(* The tool of src/limine-binary/limine.c: main() runs one of its commands *)
(* on a disk or on a file.                                                 *)
(***************************************************************************)
EXTENDS Installer, Enroll

VARIABLE command    \* argv[1]; the commands that only print are left out

limineVars == <<command, vars, enrollVars>>

\* One command is run; what the others work on does not matter to it.
LimineInit ==
    \/ /\ command = "bios-install"
       /\ Init /\ EnrollInitWith(<<>>, "0")
    \/ /\ command = "enroll-config"
       /\ EnrollInit
       /\ InitWith(CHOOSE d \in Disks : TRUE, CHOOSE o \in Options : TRUE)

main ==
    \/ command = "bios-install" /\ Next /\ UNCHANGED enrollVars
    \/ command = "enroll-config" /\ EnrollNext /\ UNCHANGED vars

LimineNext == main /\ UNCHANGED command

LimineSpec == LimineInit /\ [][LimineNext]_limineVars
==============================================================================
