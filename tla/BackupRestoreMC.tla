----------------------------- MODULE BackupRestoreMC -----------------------------
(* TLC instances of BackupRestore.                                          *)
EXTENDS BackupRestore, TLC

\* Operations of one kind are interchangeable.
Symmetry == Permutations(Backups) \union Permutations(Restores)
================================================================================
