SPECIFICATION Spec
INVARIANT CicDecodeMatchesSpec
