-------------------------------- MODULE BootFile --------------------------------
(***************************************************************************)
(* health/bootfile.go: what the preflight checks find wrong with a boot    *)
(* loader.  Of a file counts how long it is (exists, size), whether it     *)
(* begins with "MZ", where the PE header is that this points to, whether   *)
(* it is one, and the machine type in it.  The search for the name of iPXE *)
(* decides on a warning only and is left out.                              *)
(***************************************************************************)
EXTENDS Integers

CONSTANTS HeaderSize,  \* of a file, 4096 bytes are looked at
          MinHeader    \* 64: up to the end of the PE offset

\* Machine types, and the architectures they are for.
archMatches(detected, expected) == expected = "bios" \/ detected = expected

Header(f) == IF f.size < HeaderSize THEN f.size ELSE HeaderSize

validatePE(f, expected) ==
  IF Header(f) < MinHeader THEN {"too short"}
  ELSE IF f.peOffset + 6 > Header(f) THEN {"beyond"}
  ELSE IF ~f.pe THEN {"signature"}
  ELSE IF f.machine \notin {"x86_64", "i386", "arm64"} THEN {"machine"}
  ELSE IF ~archMatches(f.machine, expected) THEN {"mismatch"}
  ELSE {}

\* The problems of the file of an architecture.
ValidateBootFile(f, expected) ==
  IF ~f.exists THEN {"not found"}
  ELSE IF f.size = 0 THEN {"empty"}
  ELSE IF f.mz THEN validatePE(f, expected)
  ELSE IF expected = "bios" THEN {}
  ELSE {"no MZ"}
=============================================================================
