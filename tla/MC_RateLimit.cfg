CONSTANTS
    ann = ann
    calls = calls
    Agent = {ann}
    Metric = {calls}
    SlugOf <- MCSlugOf
    Limits <- MCLimits
    Costs = {1, 2}
    MaxLag = 1
    MaxTime = 5
SPECIFICATION Spec
INVARIANT WindowBound
