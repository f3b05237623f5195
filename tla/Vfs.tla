-------------------------------- MODULE Vfs --------------------------------
(***************************************************************************)
(* Nodes of the virtual file system and how a path leads to one            *)
(* (kernel/vfs).  ns is the set of all nodes, as a function from their     *)
(* numbers: a node has a kind, which stands for its table of functions, a  *)
(* name, and as a directory the list of its children, the newest first.    *)
(*                                                                         *)
(* A path is the sequence of what is between its separators, without an    *)
(* initial one: "/a/b" is <<"a", "b">>, "/a/" is <<"a", "">>, "/" is <<>>. *)
(***************************************************************************)
EXTENDS Naturals, SequencesExt

Null == 0
Root == 1   \* fs_init
Ram == 2    \* ramfs_init: "initrd"
Dev == 3    \* devfs_init: "dev"
Con == 4    \* devfs_register_device: "con1"
Fat == 5    \* fatfs_mount_partition: "fatfs"

Dirs == {"root", "dev", "ramdir", "fatdir"}
IsDir(ns, n) == ns[n].kind \in Dirs

(* fs_find_child.  The device directory has one child, by any name.        *)
FindChild(ns, n, name) ==
  LET found == SelectInSeq(ns[n].kids, LAMBDA k : ns[k].name = name)
  IN  IF ~IsDir(ns, n) \/ found = 0 THEN Null ELSE ns[n].kids[found]
Child(ns, n, name) == IF ns[n].kind = "dev" THEN Con ELSE FindChild(ns, n, name)

(* _get_node: the node after each part of a path.  An empty last part is   *)
(* that of a path that ends with a separator.                              *)
Ends(path, i) == i > 1 /\ i = Len(path) /\ path[i] = ""
Walked(ns, path) ==
  LET at[i \in 0 .. Len(path)] ==
        IF i = 0 THEN Root
        ELSE \* the node before is looked at once
          LET up == at[i - 1]
          IN  IF up = Null \/ Ends(path, i) THEN up ELSE Child(ns, up, path[i])
  IN  at

(* fs_get_abs_path with the parent that it finds.                          *)
fs_get_abs_path(ns, path) ==
  LET at == Walked(ns, path)
      n == Len(path)
      parent == IF Ends(path, n) THEN at[n - 2] ELSE at[n - 1]
  IN  IF path = <<>> THEN [node |-> Root, parent |-> Null]
      ELSE [node |-> at[n], parent |-> IF at[n] = Null THEN Null ELSE parent]

(* io_path_split_leaf: a path that ends with a separator has no leaf.      *)
HasLeaf(path) == path # <<>> /\ Last(path) # ""
LeafDir(path) == IF Len(path) = 1 THEN <<"">> ELSE Front(path)

(* What _fs_read_dir, of each file system, calls the callback with.        *)
Listed(ns, n) ==
  IF ~IsDir(ns, n) THEN <<>> ELSE IF ns[n].kind = "dev" THEN <<Con>> ELSE ns[n].kids
=============================================================================
