CONSTANTS
    blog = blog
    shop = shop
    hostA = hostA
    hostB = hostB
    small = small
    large = large
    Slugs = {blog, shop}
    Handlers = {1, 2}
    Hosts = {hostA, hostB}
    DefaultHost <- MCDefaultHost
    Sizes = {small, large}
    DefaultSize = small
    Cost <- MCCost
    Replicas = {2}
    VolumeSizes = {1, 2}
    Stateful = {blog}
    Plans <- MCPlans
    MaxChanges = 3
    MaxFaults = 1
    None = None
SPECIFICATION FairProjectsSpec
 
PROPERTIES
    EventuallyServed
CHECK_DEADLOCK FALSE
