---------------------------- MODULE MotionProfiles ----------------------------
(***************************************************************************)
(* The motion profiles of the runner: how loadMotionProfiles reads them    *)
(* and what the motion nodes get when they ask for one by name.            *)
(*                                                                         *)
(* A file is a function from the names of its sections to the fields that  *)
(* each of them sets; an empty path, or a file without "motion_profiles",  *)
(* is the empty function.                                                  *)
(***************************************************************************)
CONSTANTS
    Fields,    \* fields of MotionProfile
    BuiltIn    \* their initial values

Section(file, name) == IF name \in DOMAIN file THEN file[name] ELSE [f \in {} |-> f]

ProfileFromNode(section, base) ==
    [f \in Fields |-> IF f \in DOMAIN section THEN section[f] ELSE base[f]]

LoadMotionProfiles(file) ==
    LET base == ProfileFromNode(Section(file, "default"), BuiltIn)
    IN  [n \in DOMAIN file \cup {"default"} |->
            IF n = "default" THEN base ELSE ProfileFromNode(file[n], base)]

\* A name the registry does not have gets the default profile.
GetProfile(registry, name) ==
    CASE name \in DOMAIN registry -> registry[name]
      [] name \notin DOMAIN registry /\ "default" \in DOMAIN registry -> registry["default"]
      [] OTHER -> BuiltIn

-----------------------------------------------------------------------------
\* "Every other profile overrides only the fields it sets": the value of a field is
\* that of the named section, else of the default section, else the built-in one;
\* a name that is in no section is the default profile, without a complaint.
Setting(file, name, f) ==
    CASE f \in DOMAIN Section(file, name)      -> Section(file, name)[f]
      [] f \notin DOMAIN Section(file, name)
           /\ f \in DOMAIN Section(file, "default") -> Section(file, "default")[f]
      [] OTHER                                 -> BuiltIn[f]
=============================================================================
