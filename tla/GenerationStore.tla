--------------------------- MODULE GenerationStore ---------------------------
(***************************************************************************)
(* What the build tree promises to whoever follows manifest.json: at every *)
(* moment it names one complete generation, generations replace each other *)
(* in a single step, and a generation id, once current, is never current   *)
(* again.  How several processes achieve this with files is Publication.   *)
(***************************************************************************)
EXTENDS Naturals

CONSTANTS
    Id,         \* generation ids, a set of naturals
    Contents    \* the artifact sets a generation may consist of

VARIABLES
    current,    \* [id, files]: what a reader of manifest.json finds now
    last        \* the highest id that has ever been current

storeVars == <<current, last>>

\* A build directory whose manifest.json is absent or not a manifest.
Nothing == [id |-> 0, files |-> {}]

StoreInit == current = Nothing /\ last = 0

\* A whole generation becomes current at once, under an id above all others.
Commit ==
    \E id \in Id, files \in Contents :
        /\ id > last
        /\ current' = [id |-> id, files |-> files]
        /\ last' = id

\* Somebody else removed or spoiled manifest.json: no generation is current,
\* but its id is not forgotten.
Lose ==
    /\ current' = Nothing
    /\ UNCHANGED last

StoreNext == Commit \/ Lose

StoreSpec == StoreInit /\ [][StoreNext]_storeVars
=============================================================================
