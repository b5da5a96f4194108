SPECIFICATION WalkSpec
INVARIANTS RegionsAgree SizesAgree
