------------------------------ MODULE MCHolds ------------------------------
(***************************************************************************)
(* Small instances of Holds: the daemon's nightly pass, the copy `hlb      *)
(* update` takes first, a restore and an encryption run by hand.           *)
(***************************************************************************)
EXTENDS Holds

CONSTANTS nightly, update, restore, encrypt

MCJob == [p \in Process |->
            CASE p \in {nightly, update} -> "copy"
              [] p = restore -> "restore"
              [] p = encrypt -> "encryption"]
============================================================================
