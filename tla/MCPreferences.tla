--------------------------- MODULE MCPreferences ---------------------------
(* Preferences with names that meet: a vendor or a package that is also a  *)
(* file, a filename with a directory in it.                                *)
EXTENDS Preferences

CONSTANTS NoHome

SomeNames == {"", "..", "..f", ".config", "h", "v", "f", "etc"}
SomeHomes == {<<"h">>, <<"">>, NoHome}
Etc == <<"etc">>
SomeVendors == {None, <<"v">>, <<"..", "v">>, <<"v", "..f">>}
SomePackages == {None, <<"f">>}
SomeFilenames == {None, <<"f">>, <<"v", "f">>}
SomeFiles == {<<>>,
              (<<"etc", "v", "f">> :> Torn),
              (<<"etc", "f">> :> "a") @@ (<<"h", ".config", "v", "f">> :> "b")}
=============================================================================
