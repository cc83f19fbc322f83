-------------------------------- MODULE MCAssets --------------------------------
\* A small instance of AssetGC: two slugs, one content address, named in texts at
\* the end of a run of hex digits of the longest length every window of which is
\* read.
EXTENDS AssetGC

MCRef == {[sha |-> "h", off |-> 1, run |-> 3]}
\* One of the slugs has the asset, the other may only name it.
CONSTANTS s1, s2
MCUploads == {<<s1, "h">>}
===============================================================================
