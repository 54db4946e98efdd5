---------------------------- MODULE ImportPaths ----------------------------
(***************************************************************************)
(* How sysl spells the file an import statement names                      *)
(* (EnterImport_stmt of pkg/parse/listener_impl.go) and which file of the  *)
(* project a spelling opens (ChrootFs of pkg/syslutil/chroot_fs.go).       *)
(*                                                                         *)
(* A spelling is the sequence of its path elements, with Slash in front if *)
(* it is absolute: "./lib/c.sysl" is <<Dot, "lib", "c">>.  An element      *)
(* stands for a name with its default suffix ".sysl", and with its         *)
(* "@version" if it has one.                                               *)
(***************************************************************************)
EXTENDS Naturals, Sequences, SequencesExt

Slash == "/"
Dot == "."
Up == ".."

IsAbs(name) == name # <<>> /\ Head(name) = Slash

(* filepath.Clean, element by element: "." vanishes and ".." takes the     *)
(* element before it away.                                                 *)
CleanStep(path, s) ==
  CASE s \in {Dot, Slash} -> path
    [] s = Up /\ path # <<>> /\ path # <<Slash>> /\ Last(path) # Up -> Front(path)
    [] s = Up /\ path = <<Slash>> -> path
    [] OTHER -> Append(path, s)

Clean(name) ==
  IF IsAbs(name) THEN FoldLeft(CleanStep, <<Slash>>, Tail(name))
                 ELSE FoldLeft(CleanStep, <<>>, name)

(* filepath.Dir: the cleaned path without its last element, "." if that is *)
(* empty.  A remote import loses its version here.                         *)
Dir(name) ==
  LET d == Clean(Front(name)) IN IF d = <<>> THEN <<Dot>> ELSE d

(* The spelling of import text in the file spelled name.  A relative text  *)
(* is appended to the importing file's directory and a slash.  Two slashes *)
(* in front, which a remote import has, are stripped; so are those that a  *)
(* relative text gets in a file of "/".  The result is not cleaned.        *)
Remote == <<Slash, Slash>>

Joined(name, text) ==
  CASE IsAbs(text) -> text
    [] Dir(name) = <<Slash>> -> Remote \o text
    [] OTHER -> Dir(name) \o text

Spell(name, text) ==
  LET path == Joined(name, text)
  IN IF IsPrefix(Remote, path) THEN SubSeq(path, 3, Len(path)) ELSE path

(* ChrootFs.join: the file that a spelling opens, as a path from the root. *)
FileOf(name) == Clean(IF IsAbs(name) THEN Tail(name) ELSE name)

(* ChrootFs.openAllowed *)
OpenAllowed(name) == FileOf(name) = <<>> \/ Head(FileOf(name)) # Up
============================================================================
